---- MODULE Spec2Model ----
(***************************************************************************)
(* Reconciliation and change-control engine of ad-to-ldap-sync: the group  *)
(* synchronisation runner (src/src/runners/group_sync.py).                 *)
(*                                                                         *)
(* Python values are modelled as follows: a str is a TLA+ string, a list   *)
(* is a sequence, a set is a set, a dict is a function whose DOMAIN is the *)
(* set of keys, None is the string None (no directory value of the model   *)
(* is spelled that way), and a float is an IEEE-754 double kept as its 53  *)
(* mantissa bits and the exponent of its leading bit.                      *)
(***************************************************************************)
EXTENDS Integers, Sequences, FiniteSets, TLC

VARIABLES
    settings,                   \* basic_config["config"]["settings"]
    args,                       \* basic_config["args"]: universal_override, group_override
    exceptions,                 \* basic_config["exceptions"]
    country_control,            \* basic_config["country_control"]
    ad_accounts,                \* primary directory: user DN -> account entry
    openldap_uids,              \* secondary directory: uid -> number of entries found
    ad_objects,                 \* primary directory: DN -> objectClass and member
    ad_groups,                  \* primary directory: group name -> group entry
    openldap_groups,            \* secondary directory: group name -> group entry
    openldap_users,             \* secondary directory: uid -> user entry
    markers,                    \* monitoring files: runner -> status written
    ad_group_dictionary,        \* _main: groups of the primary directory
    openldap_group_dictionary,  \* _main: groups of the secondary directory
    group_operations,           \* _main: additions/deletions/override_required per group
    run_status,                 \* AdLdapGroupSync.run_status
    user_lookup_cache,          \* AdLdapGroupSync.user_lookup_cache
    object_lookup_cache,        \* AdLdapGroupSync.object_lookup_cache
    all_users,                  \* AdLdapUserSync.all_users
    mutations,                  \* modify calls issued to the directories, in order
    call,                       \* arguments of the function being applied
    ret,                        \* values returned so far
    pc,                         \* position of the run
    called_groups,              \* _flatten_nested_group: the list shared down the recursion
    stack                       \* _flatten_nested_group: the frames of the recursion

vars == <<settings, args, exceptions, country_control, ad_accounts, openldap_uids,
          ad_objects, ad_groups, openldap_groups, openldap_users, markers,
          ad_group_dictionary, openldap_group_dictionary,
          group_operations, run_status, user_lookup_cache, object_lookup_cache,
          all_users, mutations, call, ret, pc, called_groups, stack>>

None == "None"

-----------------------------------------------------------------------------
(* Bounds of the model.                                                     *)

MaxMembers == 3       \* members of a destination group
MaxAdditions == 3     \* proposed additions of a group

(* Names the bounded inputs are drawn from. *)
UidPool == <<"a", "b", "c", "d", "e">>
NewUidPool == <<"p", "q", "r", "s", "t">>

Prefix(s, n) == SubSeq(s, 1, n)

Range(s) == {s[i] : i \in 1..Len(s)}

-----------------------------------------------------------------------------
(* Python float arithmetic: int / int and float * int are correctly        *)
(* rounded IEEE-754 double operations, int(float) truncates.               *)

MantissaBits == 53

(* The recursions below are over functions, whose arguments are values.    *)

(* The binary digits of q >= 0, most significant first. *)
BitsOf(q) ==
    LET f[x \in 0..q] == IF x = 0 THEN <<>> ELSE Append(f[x \div 2], x % 2)
    IN  f[q]

(* The number whose binary digits are bits. *)
IntOf(bits) ==
    LET f[i \in 0..Len(bits)] == IF i = 0 THEN 0 ELSE 2 * f[i - 1] + bits[i]
    IN  f[Len(bits)]

(* Remainder left after k quotient bits of r / n (r < n) were produced.    *)
RemAfter(r, n, k) ==
    LET f[i \in 0..k] == IF i = 0 THEN r ELSE (2 * f[i - 1]) % n
    IN  f[k]

(* The first k bits of the binary fraction r / n (r < n), by long division. *)
DivBits(r, n, k) ==
    LET f[t \in (0..(n - 1)) \X (0..k)] ==
            IF t[2] = 0 THEN <<>>
            ELSE <<(2 * t[1]) \div n>> \o f[<<(2 * t[1]) % n, t[2] - 1>>]
    IN  f[<<r, k>>]

(* Zero bits before the first one bit of the fraction r / n (0 < r < n). *)
LeadZeros(r, n) ==
    LET f[x \in 1..(n - 1)] == IF 2 * x >= n THEN 0 ELSE 1 + f[2 * x]
    IN  f[r]

Zeros(k) == [i \in 1..k |-> 0]

(* bits + 1; one bit longer when every bit is 1. *)
IncBits(bits) ==
    LET zeroAt == {i \in 1..Len(bits) : bits[i] = 0}
    IN  IF zeroAt = {} THEN <<1>> \o Zeros(Len(bits))
        ELSE LET j == CHOOSE i \in zeroAt : \A k \in zeroAt : k <= i
             IN  SubSeq(bits, 1, j - 1) \o <<1>> \o Zeros(Len(bits) - j)

ChunkBits == 18     \* 2^18 * c stays below 2^31 for c < 2^11

Pow2(k) == IntOf(<<1>> \o Zeros(k))

PadBits(bits, k) == Zeros(k - Len(bits)) \o bits

(* bits * c, the bits taken ChunkBits at a time from the low end: f[j] is  *)
(* the product's low bits and the carry once j bits were consumed.         *)
MulBits(bits, c) ==
    LET n == Len(bits)
        f[j \in 0..n] ==
            IF j = 0 THEN [low |-> <<>>, carry |-> 0]
            ELSE LET w == IF j % ChunkBits = 0 THEN ChunkBits ELSE j % ChunkBits
                     prev == f[j - w]
                     v == IntOf(SubSeq(bits, n - j + 1, n - j + w)) * c + prev.carry
                 IN  [low |-> PadBits(BitsOf(v % Pow2(w)), w) \o prev.low,
                      carry |-> v \div Pow2(w)]
    IN  BitsOf(f[n].carry) \o f[n].low

(* Round a bit string (leading bit 1, e the exponent of the leading bit) to *)
(* 53 bits, half to even; sticky: non-zero bits follow the string.          *)
RoundToDouble(bits, e, sticky) ==
    IF Len(bits) <= MantissaBits
    THEN [m |-> bits \o Zeros(MantissaBits - Len(bits)), e |-> e]
    ELSE LET keep == SubSeq(bits, 1, MantissaBits)
             guard == bits[MantissaBits + 1]
             rest == sticky \/ \E i \in (MantissaBits + 2)..Len(bits) : bits[i] = 1
             up == guard = 1 /\ (rest \/ keep[MantissaBits] = 1)
             inc == IncBits(keep)
         IN  IF ~up THEN [m |-> keep, e |-> e]
             ELSE IF Len(inc) > MantissaBits
                  THEN [m |-> SubSeq(inc, 1, MantissaBits), e |-> e + 1]
                  ELSE [m |-> inc, e |-> e]

(* a / n for integers a > 0 and n > 0. *)
FloatDiv(a, n) ==
    LET ip == BitsOf(a \div n)
        r == a % n
    IN  IF ip # <<>>
        THEN LET k == MantissaBits + 1 - Len(ip)
             IN  RoundToDouble(ip \o DivBits(r, n, k), Len(ip) - 1,
                               RemAfter(r, n, k) # 0)
        ELSE LET z == LeadZeros(r, n)
                 r0 == RemAfter(r, n, z)
             IN  RoundToDouble(DivBits(r0, n, MantissaBits + 1), -(z + 1),
                               RemAfter(r0, n, MantissaBits + 1) # 0)

(* d * c for a double d > 0 and an integer 0 < c < 2^11. *)
FloatMul(d, c) ==
    LET p == MulBits(d.m, c)
    IN  RoundToDouble(p, d.e + (Len(p) - MantissaBits), FALSE)

(* int(d) for a double d > 0. *)
FloatToInt(d) == IF d.e < 0 THEN 0 ELSE IntOf(SubSeq(d.m, 1, d.e + 1))

(* int(a / n * 100) for integers a >= 0 and n > 0. *)
IntOfRatioTimes100(a, n) ==
    IF a = 0 THEN 0 ELSE FloatToInt(FloatMul(FloatDiv(a, n), 100))

Max(a, b) == IF a >= b THEN a ELSE b

-----------------------------------------------------------------------------
(* Change-percentage and override gate.                                     *)

_determine_change_percent(destination_list, destination_operations) ==
    LET original_len == Max(Len(destination_list), 1)
        deletions_len == Len(destination_operations.deletions)
        additions_len == Len(destination_operations.additions)
        total_change_size == additions_len + deletions_len
    IN  [original_len |-> original_len,
         deletions_len |-> deletions_len,
         additions_len |-> additions_len,
         total_change_size |-> total_change_size,
         total_change_percent |-> IntOfRatioTimes100(total_change_size, original_len),
         deletions_change_percent |-> IntOfRatioTimes100(deletions_len, original_len),
         additions_change_percent |-> IntOfRatioTimes100(additions_len, original_len)]

(* _check_override_required with the small-group test written <= .         *)
_check_override_required_le(destination_list, destination_operations, group_name) ==
    LET change_data == _determine_change_percent(destination_list, destination_operations)
        breach == \/ change_data.total_change_percent > settings.total_change_threshold
                  \/ change_data.deletions_change_percent
                         > settings.deletions_change_threshold
                  \/ change_data.additions_change_percent
                         > settings.additions_change_threshold
    IN  IF change_data.original_len <= settings.small_group_blind_update /\ breach
        THEN FALSE
        ELSE breach

_check_override_required(destination_list, destination_operations, group_name) ==
    LET change_data == _determine_change_percent(destination_list, destination_operations)
        o1 == IF change_data.total_change_percent > settings.total_change_threshold
              THEN TRUE ELSE FALSE
        o2 == IF change_data.deletions_change_percent > settings.deletions_change_threshold
              THEN TRUE ELSE o1
        o3 == IF change_data.additions_change_percent > settings.additions_change_threshold
              THEN TRUE ELSE o2
    IN  IF change_data.original_len < settings.small_group_blind_update /\ o3
        THEN FALSE
        ELSE o3

-----------------------------------------------------------------------------
(* Group dictionaries. A dict keeps its keys in insertion order, which for  *)
(* a group dictionary is the order in which the directory listed the        *)
(* groups; the model lists groups in the order of GroupOrder.               *)

GroupOrder == <<"g1", "G1", "g2", "g3">>

KeysInOrder(dict) == SelectSeq(GroupOrder, LAMBDA g : g \in DOMAIN dict)

(* _build_sync_group_list without the comparison of the ids. *)
_build_sync_group_list_any_id(first_group_dict, second_group_dict) ==
    SelectSeq(KeysInOrder(first_group_dict), LAMBDA g : g \in DOMAIN second_group_dict)

_build_sync_group_list(first_group_dict, second_group_dict) ==
    LET keys == KeysInOrder(first_group_dict)
        valid_sync_groups[i \in 0..Len(keys)] ==
            IF i = 0 THEN <<>>
            ELSE LET group == keys[i]
                 IN  IF group \in DOMAIN second_group_dict
                     THEN IF first_group_dict[group].id = second_group_dict[group].id
                          THEN Append(valid_sync_groups[i - 1], group)
                          ELSE valid_sync_groups[i - 1]
                     ELSE valid_sync_groups[i - 1]
    IN  valid_sync_groups[Len(keys)]

-----------------------------------------------------------------------------
(* Change application.                                                      *)

MODIFY_ADD == "MODIFY_ADD"
MODIFY_DELETE == "MODIFY_DELETE"
MODIFY_REPLACE == "MODIFY_REPLACE"

(* The directory's answers to a mutation: 0 is success. *)
ResultCodes == {0, 50}

(* cn=<group>,<groups>,<base> of the secondary directory. *)
OpenldapGroupDn(group) == <<"cn", group, "openldap_groups", "openldap_base">>

(* config[server_type]["schema"]["objects"]["group"]["members"] *)
GroupMembersAttribute(server_type) ==
    IF server_type = "ad" THEN "member" ELSE "memberUid"

(* _modify_group that assigns the outcome of the call to run_status: a     *)
(* call that succeeds sets it back to True.                                *)
_modify_group_status_assigned(st, server_type, connection, group_dn, action, user_list, result) ==
    IF user_list # <<>>
    THEN [mutations |-> Append(st.mutations,
                               [connection |-> connection, op |-> "modify",
                                dn |-> group_dn, action |-> action,
                                attribute |-> GroupMembersAttribute(server_type),
                                values |-> user_list, result |-> result]),
          run_status |-> result = 0]
    ELSE st

(* The effects of a call on the instance: st.run_status and st.mutations.  *)
(* result is the result code the directory gives if the modify is issued.   *)
_modify_group(st, server_type, connection, group_dn, action, user_list, result) ==
    IF user_list # <<>>
    THEN [mutations |-> Append(st.mutations,
                               [connection |-> connection, op |-> "modify",
                                dn |-> group_dn, action |-> action,
                                attribute |-> GroupMembersAttribute(server_type),
                                values |-> user_list, result |-> result]),
          run_status |-> IF result # 0 THEN FALSE ELSE st.run_status]
    ELSE st

(* _check_process_changes without the per-group override list. *)
_check_process_changes_universal_only(rs, destination_group_dict, group, operations) ==
    IF Len(operations[group].additions) > 0 \/ Len(operations[group].deletions) > 0
    THEN IF operations[group].override_required
         THEN IF args.universal_override
              THEN [process_changes |-> TRUE, run_status |-> rs]
              ELSE [process_changes |-> FALSE, run_status |-> FALSE]
         ELSE [process_changes |-> TRUE, run_status |-> rs]
    ELSE [process_changes |-> FALSE, run_status |-> rs]

(* _check_process_changes without self.run_status = False. *)
_check_process_changes_status_kept(rs, destination_group_dict, group, operations) ==
    [process_changes |->
         /\ Len(operations[group].additions) > 0 \/ Len(operations[group].deletions) > 0
         /\ (operations[group].override_required =>
                 args.universal_override \/ group \in Range(args.group_override)),
     run_status |-> rs]

(* The value returned and run_status after the call; rs is run_status      *)
(* before it.                                                               *)
_check_process_changes(rs, destination_group_dict, group, operations) ==
    IF Len(operations[group].additions) > 0 \/ Len(operations[group].deletions) > 0
    THEN IF operations[group].override_required
         THEN IF args.universal_override \/ group \in Range(args.group_override)
              THEN [process_changes |-> TRUE, run_status |-> rs]
              ELSE [process_changes |-> FALSE, run_status |-> FALSE]
         ELSE [process_changes |-> TRUE, run_status |-> rs]
    ELSE [process_changes |-> FALSE, run_status |-> rs]

(* One iteration of the loop of _process_operations that leaves the group  *)
(* after a modify call that failed.                                        *)
_process_operations_group_stop_after_failure(st, destination_group_dict, operations, i, r_add, r_del) ==
    LET group == KeysInOrder(operations)[i]
        group_dn == OpenldapGroupDn(group)
        gate == _check_process_changes(st.run_status, destination_group_dict,
                                       group, operations)
        st0 == [mutations |-> st.mutations, run_status |-> gate.run_status]
        st1 == _modify_group(st0, "openldap", "openldap", group_dn, MODIFY_ADD,
                             operations[group].additions, r_add)
        st2 == IF operations[group].additions # <<>> /\ r_add # 0
               THEN st1
               ELSE _modify_group(st1, "openldap", "openldap", group_dn, MODIFY_DELETE,
                                  operations[group].deletions, r_del)
    IN  [process_changes |-> gate.process_changes,
         st |-> IF gate.process_changes THEN st2 ELSE st0]

(* One iteration of the loop of _process_operations with the modify calls *)
(* issued against the primary directory.                                   *)
_process_operations_group_primary(st, destination_group_dict, operations, i, r_add, r_del) ==
    LET group == KeysInOrder(operations)[i]
        group_dn == OpenldapGroupDn(group)
        gate == _check_process_changes(st.run_status, destination_group_dict,
                                       group, operations)
        st0 == [mutations |-> st.mutations, run_status |-> gate.run_status]
        st1 == _modify_group(st0, "ad", "ad", group_dn, MODIFY_ADD,
                             operations[group].additions, r_add)
        st2 == _modify_group(st1, "ad", "ad", group_dn, MODIFY_DELETE,
                             operations[group].deletions, r_del)
    IN  [process_changes |-> gate.process_changes,
         st |-> IF gate.process_changes THEN st2 ELSE st0]

(* One iteration of the loop of _process_operations, for the group at      *)
(* position i of operations. r_add and r_del are the directory's answers   *)
(* to the two modify calls, when they are issued.                           *)
_process_operations_group(st, destination_group_dict, operations, i, r_add, r_del) ==
    LET group == KeysInOrder(operations)[i]
        group_dn == OpenldapGroupDn(group)
        gate == _check_process_changes(st.run_status, destination_group_dict,
                                       group, operations)
        st0 == [mutations |-> st.mutations, run_status |-> gate.run_status]
        st1 == _modify_group(st0, "openldap", "openldap", group_dn, MODIFY_ADD,
                             operations[group].additions, r_add)
        st2 == _modify_group(st1, "openldap", "openldap", group_dn, MODIFY_DELETE,
                             operations[group].deletions, r_del)
    IN  [process_changes |-> gate.process_changes,
         st |-> IF gate.process_changes THEN st2 ELSE st0]

-----------------------------------------------------------------------------
(* User resolution. A directory answers a search with a list of entries:    *)
(* ad_accounts maps the DN of a primary user to its attributes, and         *)
(* openldap_uids maps a uid to the number of secondary entries holding it.  *)

ms_ad_disabled_user == 514
ms_ad_disabled_user_no_expire == 66050

(* What a resolution that finds nothing usable returns. *)
UnknownAccount == [sAMAccountName |-> "", country_code |-> None, account_active |-> FALSE]

(* str.lower() on the login ids and the group names of the model. *)
LowerCase(s) ==
    CASE s = "A" -> "a"
      [] s = "B" -> "b"
      [] s = "C" -> "c"
      [] s = "G1" -> "g1"
      [] OTHER -> s

(* connection.response of the search. For "ad" user_name stands for the    *)
(* cn and base the DN was split into; for "openldap" it is the uid of the   *)
(* filter uid=<user_name>.                                                  *)
_user_search(server_type, user_name) ==
    IF server_type = "ad"
    THEN IF user_name \in DOMAIN ad_accounts
         THEN <<[attributes |-> ad_accounts[user_name]]>>
         ELSE <<>>
    ELSE [k \in 1..(IF user_name \in DOMAIN openldap_uids
                    THEN openldap_uids[user_name] ELSE 0) |->
              [attributes |-> [uid |-> user_name]]]

(* The value returned and run_status after the call. A missing entry or a  *)
(* missing attribute raises inside the try block: the except branch         *)
(* returns account_data as far as it was filled.                            *)
_get_account_data(rs, ad_user) ==
    LET response == _user_search("ad", ad_user)
    IN  IF response = <<>>
        THEN [account_data |-> UnknownAccount, run_status |-> FALSE]
        ELSE LET full_output == response[1].attributes
             IN  IF "userAccountControl" \notin DOMAIN full_output
                 THEN [account_data |-> UnknownAccount, run_status |-> FALSE]
                 ELSE LET account_active ==
                              /\ full_output.userAccountControl # ms_ad_disabled_user
                              /\ full_output.userAccountControl
                                     # ms_ad_disabled_user_no_expire
                      IN  IF "sAMAccountName" \notin DOMAIN full_output
                          THEN [account_data |->
                                    [UnknownAccount EXCEPT
                                         !.account_active = account_active],
                                run_status |-> FALSE]
                          ELSE [account_data |->
                                    [sAMAccountName |->
                                         LowerCase(full_output.sAMAccountName),
                                     country_code |->
                                         IF "c" \in DOMAIN full_output
                                         THEN full_output.c ELSE None,
                                     account_active |-> account_active],
                                run_status |-> rs]

(* A call of _lookup_ad_user leaves st with the cache and run_status it    *)
(* produced, and with the call recorded in st.lookups.                      *)
LookupReturn(st, ad_user, account_data, cache, rs) ==
    [account_data |-> account_data,
     st |-> [st EXCEPT !.user_lookup_cache = cache,
                       !.run_status = rs,
                       !.lookups = @ \cup {[ad_user |-> ad_user,
                                            account_data |-> account_data,
                                            run_status_before |-> st.run_status,
                                            run_status_after |-> rs]}]]

(* _lookup_ad_user in which an exception target that matches nothing fails *)
(* the run whatever the target is.                                          *)
_lookup_ad_user_none_fails(st, ad_user) ==
    IF ad_user \in DOMAIN st.user_lookup_cache
    THEN LookupReturn(st, ad_user, st.user_lookup_cache[ad_user],
                      st.user_lookup_cache, st.run_status)
    ELSE LET got == _get_account_data(st.run_status, ad_user)
             account_data == got.account_data
             target == IF account_data.sAMAccountName \in DOMAIN exceptions
                       THEN exceptions[account_data.sAMAccountName]
                       ELSE account_data.sAMAccountName
             resolved == [account_data EXCEPT !.sAMAccountName = target]
         IN  IF Len(_user_search("openldap", target)) = 1
             THEN LookupReturn(st, ad_user, resolved,
                               st.user_lookup_cache @@ (ad_user :> resolved),
                               got.run_status)
             ELSE LookupReturn(st, ad_user, UnknownAccount, st.user_lookup_cache, FALSE)

(* _lookup_ad_user in which a login id outside the exception table that   *)
(* matches no single secondary entry leaves run_status as it was.           *)
_lookup_ad_user_quiet_miss(st, ad_user) ==
    IF ad_user \in DOMAIN st.user_lookup_cache
    THEN LookupReturn(st, ad_user, st.user_lookup_cache[ad_user],
                      st.user_lookup_cache, st.run_status)
    ELSE LET got == _get_account_data(st.run_status, ad_user)
             account_data == got.account_data
             target == IF account_data.sAMAccountName \in DOMAIN exceptions
                       THEN exceptions[account_data.sAMAccountName]
                       ELSE account_data.sAMAccountName
             resolved == [account_data EXCEPT !.sAMAccountName = target]
             found == _user_search("openldap", target)
         IN  IF Len(found) = 1
             THEN LookupReturn(st, ad_user, resolved,
                               st.user_lookup_cache @@ (ad_user :> resolved),
                               got.run_status)
             ELSE LookupReturn(st, ad_user, UnknownAccount, st.user_lookup_cache,
                               IF account_data.sAMAccountName \in DOMAIN exceptions
                                  /\ (target # "NONE" \/ found # <<>>)
                               THEN FALSE ELSE got.run_status)

_lookup_ad_user(st, ad_user) ==
    IF ad_user \in DOMAIN st.user_lookup_cache
    THEN LookupReturn(st, ad_user, st.user_lookup_cache[ad_user],
                      st.user_lookup_cache, st.run_status)
    ELSE LET got == _get_account_data(st.run_status, ad_user)
             account_data == got.account_data
         IN  IF account_data.sAMAccountName \in DOMAIN exceptions
             THEN LET target == exceptions[account_data.sAMAccountName]
                      exception_lookup == _user_search("openldap", target)
                      resolved == [account_data EXCEPT !.sAMAccountName = target]
                  IN  IF Len(exception_lookup) = 1
                      THEN LookupReturn(st, ad_user, resolved,
                                        st.user_lookup_cache @@ (ad_user :> resolved),
                                        got.run_status)
                      ELSE IF exception_lookup = <<>>
                      THEN LookupReturn(st, ad_user, UnknownAccount,
                                        st.user_lookup_cache,
                                        IF target # "NONE" THEN FALSE
                                        ELSE got.run_status)
                      ELSE LookupReturn(st, ad_user, UnknownAccount,
                                        st.user_lookup_cache, FALSE)
             ELSE LET ldap_lookup ==
                          _user_search("openldap", account_data.sAMAccountName)
                  IN  IF Len(ldap_lookup) = 1
                      THEN LookupReturn(st, ad_user, account_data,
                                        st.user_lookup_cache @@ (ad_user :> account_data),
                                        got.run_status)
                      ELSE LookupReturn(st, ad_user, UnknownAccount,
                                        st.user_lookup_cache, FALSE)

-----------------------------------------------------------------------------
(* Membership difference of one group. st carries what the calls change on *)
(* the instance (user_lookup_cache, run_status) and the calls made so far   *)
(* (lookups, checks). The members of a primary group are a set, iterated in *)
(* the order of its names sequence.                                         *)

(* The element of a one-element set: Only({e(x) : x \in {v}}) is e(v) with *)
(* v evaluated once.                                                        *)
Only(S) == CHOOSE r \in S : TRUE

_check_country_control(account_data, valid_sync_group) ==
    IF DOMAIN country_control # {}
    THEN IF valid_sync_group \in DOMAIN country_control
         THEN IF account_data.country_code = ""
              THEN TRUE
              ELSE IF account_data.country_code \in Range(country_control[valid_sync_group])
                   THEN TRUE
                   ELSE FALSE
         ELSE TRUE
    ELSE TRUE

(* The loop body of _find_user_in_source_dict taking a disabled account    *)
(* for a match.                                                             *)
_find_user_in_source_dict_member_any_state(acc, source_member, destination_member) ==
    Only({[found |-> IF destination_member = looked.account_data.sAMAccountName
                     THEN TRUE ELSE acc.found,
           st |-> looked.st] :
              looked \in {_lookup_ad_user(acc.st, source_member)}})

(* The loop body of _find_user_in_source_dict: acc is found and st before  *)
(* the iteration.                                                           *)
_find_user_in_source_dict_member(acc, source_member, destination_member) ==
    Only({[found |-> IF /\ destination_member = looked.account_data.sAMAccountName
                        /\ looked.account_data.account_active = TRUE
                     THEN TRUE ELSE acc.found,
           st |-> looked.st] :
              looked \in {_lookup_ad_user(acc.st, source_member)}})

_find_user_in_source_dict(st, source_dict, destination_member, valid_sync_group) ==
    LET names == source_dict[valid_sync_group].names
        loop[i \in 0..Len(names)] ==
            IF i = 0 THEN [found |-> FALSE, st |-> st]
            ELSE Only({_find_user_in_source_dict_member(acc, names[i], destination_member) :
                           acc \in {loop[i - 1]}})
    IN  loop[Len(names)]

(* The loop body of _generate_additions without the test of                *)
(* account_active.                                                          *)
_generate_additions_member_any_state(acc, source_member, destination_dict, valid_sync_group) ==
    Only({LET account_data == looked.account_data
              asked == /\ account_data.sAMAccountName
                              \notin Range(destination_dict[valid_sync_group].names)
                       /\ account_data.sAMAccountName # ""
              allowed == _check_country_control(account_data, valid_sync_group)
          IN  [additions |-> IF asked /\ allowed
                             THEN Append(acc.additions, account_data.sAMAccountName)
                             ELSE acc.additions,
               st |-> IF asked
                      THEN [looked.st EXCEPT !.checks = @ \cup
                                {[account_data |-> account_data,
                                  valid_sync_group |-> valid_sync_group,
                                  allowed |-> allowed]}]
                      ELSE looked.st] :
              looked \in {_lookup_ad_user(acc.st, source_member)}})

(* The loop body of _generate_additions: acc is additions and st before    *)
(* the iteration. asked: the first three conjuncts hold, so the fourth,     *)
(* the call of _check_country_control, is evaluated.                        *)
_generate_additions_member(acc, source_member, destination_dict, valid_sync_group) ==
    Only({LET account_data == looked.account_data
              asked == /\ account_data.sAMAccountName
                              \notin Range(destination_dict[valid_sync_group].names)
                       /\ account_data.sAMAccountName # ""
                       /\ account_data.account_active = TRUE
              allowed == _check_country_control(account_data, valid_sync_group)
          IN  [additions |-> IF asked /\ allowed
                             THEN Append(acc.additions, account_data.sAMAccountName)
                             ELSE acc.additions,
               st |-> IF asked
                      THEN [looked.st EXCEPT !.checks = @ \cup
                                {[account_data |-> account_data,
                                  valid_sync_group |-> valid_sync_group,
                                  allowed |-> allowed]}]
                      ELSE looked.st] :
              looked \in {_lookup_ad_user(acc.st, source_member)}})

_generate_additions(st, source_dict, destination_dict, valid_sync_group) ==
    LET names == source_dict[valid_sync_group].names
        loop[i \in 0..Len(names)] ==
            IF i = 0 THEN [additions |-> <<>>, st |-> st]
            ELSE Only({_generate_additions_member(acc, names[i], destination_dict,
                                                  valid_sync_group) :
                           acc \in {loop[i - 1]}})
    IN  loop[Len(names)]

(* The loop body of _generate_deletions without the test of the search    *)
(* result: every destination member is deleted.                            *)
_generate_deletions_member_all(acc, destination_member, source_dict, valid_sync_group) ==
    Only({[deletions |-> Append(acc.deletions, destination_member),
           st |-> search.st] :
              search \in {_find_user_in_source_dict(acc.st, source_dict,
                                                    destination_member,
                                                    valid_sync_group)}})

(* The loop body of _generate_deletions in which a source member counts   *)
(* as a match only when the country control of the group admits it.        *)
_generate_deletions_member_country_checked(acc, destination_member, source_dict, valid_sync_group) ==
    Only({LET names == source_dict[valid_sync_group].names
              matched ==
                  \E k \in 1..Len(names) :
                      \E account_data \in {_lookup_ad_user(search.st, names[k]).account_data} :
                          /\ account_data.sAMAccountName = destination_member
                          /\ account_data.account_active
                          /\ _check_country_control(account_data, valid_sync_group)
          IN  [deletions |-> IF ~matched
                             THEN Append(acc.deletions, destination_member)
                             ELSE acc.deletions,
               st |-> search.st] :
              search \in {_find_user_in_source_dict(acc.st, source_dict,
                                                    destination_member,
                                                    valid_sync_group)}})

(* The loop body of _generate_deletions: acc is deletions and st before    *)
(* the iteration.                                                           *)
_generate_deletions_member(acc, destination_member, source_dict, valid_sync_group) ==
    Only({[deletions |-> IF ~search.found
                         THEN Append(acc.deletions, destination_member)
                         ELSE acc.deletions,
           st |-> search.st] :
              search \in {_find_user_in_source_dict(acc.st, source_dict,
                                                    destination_member,
                                                    valid_sync_group)}})

_generate_deletions(st, destination_dict, source_dict, valid_sync_group) ==
    LET names == destination_dict[valid_sync_group].names
        loop[i \in 0..Len(names)] ==
            IF i = 0 THEN [deletions |-> <<>>, st |-> st]
            ELSE Only({_generate_deletions_member(acc, names[i], source_dict,
                                                  valid_sync_group) :
                           acc \in {loop[i - 1]}})
    IN  loop[Len(names)]

(* The entry of destination_operations for a group, given what             *)
(* _generate_additions returned, and st after it.                           *)
OperationsAfterAdditions(added, source_dict, destination_dict, valid_sync_group) ==
    Only({[operations |->
               [additions |-> added.additions,
                deletions |-> deleted.deletions,
                override_required |->
                    _check_override_required(
                        destination_dict[valid_sync_group].names,
                        [additions |-> added.additions, deletions |-> deleted.deletions],
                        valid_sync_group)],
           st |-> deleted.st] :
              deleted \in {_generate_deletions(added.st, destination_dict, source_dict,
                                               valid_sync_group)}})

(* One iteration of the loop of _generate_group_operations. *)
_generate_group_operations_group(st, source_dict, destination_dict, valid_sync_group) ==
    Only({OperationsAfterAdditions(added, source_dict, destination_dict,
                                   valid_sync_group) :
              added \in {_generate_additions(st, source_dict, destination_dict,
                                             valid_sync_group)}})

-----------------------------------------------------------------------------
(* Values of the variables a specification does not use.                    *)

EmptyDict == <<>>

IdleConfig ==
    /\ exceptions = EmptyDict
    /\ country_control = EmptyDict

IdleGroupEntries ==
    /\ ad_groups = EmptyDict
    /\ openldap_groups = EmptyDict
    /\ openldap_users = EmptyDict
    /\ markers = EmptyDict

IdleDirectories ==
    /\ ad_accounts = EmptyDict
    /\ openldap_uids = EmptyDict
    /\ ad_objects = EmptyDict
    /\ IdleGroupEntries

IdleDictionaries ==
    /\ ad_group_dictionary = EmptyDict
    /\ openldap_group_dictionary = EmptyDict
    /\ group_operations = EmptyDict

IdleCaches ==
    /\ user_lookup_cache = EmptyDict
    /\ object_lookup_cache = EmptyDict
    /\ all_users = EmptyDict

IdleFlatten ==
    /\ called_groups = <<>>
    /\ stack = <<>>

(* config[server_type]["schema"][attr_type] of a run that synchronises   *)
(* mail from the primary and loginShell from the secondary directory and   *)
(* has no local_copy_attrs: the mapping with the order of its keys.        *)
NoAttrs == [keys |-> <<>>, map |-> <<>>]

DefaultSchema ==
    [ad |-> [local_copy_attrs |-> NoAttrs,
             remote_synced_attrs |-> [keys |-> <<"mail">>, map |-> [mail |-> "mail"]]],
     openldap |-> [local_copy_attrs |-> NoAttrs,
                   remote_synced_attrs |->
                       [keys |-> <<"loginShell">>,
                        map |-> [loginShell |-> "loginShell"]]]]

(* config["settings"], and under schema the attribute mappings of the two *)
(* servers.                                                                *)
DefaultSettings ==
    [total_change_threshold |-> 50, deletions_change_threshold |-> 50,
     additions_change_threshold |-> 50, small_group_blind_update |-> 2,
     schema |-> DefaultSchema]

DefaultArgs == [universal_override |-> FALSE, group_override |-> <<>>]

configVars == <<settings, args, exceptions, country_control>>
directoryVars == <<ad_accounts, openldap_uids, ad_objects, ad_groups, openldap_groups,
                   openldap_users, markers>>
dictionaryVars == <<ad_group_dictionary, openldap_group_dictionary, group_operations>>
cacheVars == <<user_lookup_cache, object_lookup_cache, all_users>>
flattenVars == <<called_groups, stack>>

-----------------------------------------------------------------------------
(* SpecOverride: _determine_change_percent and _check_override_required     *)
(* applied to every destination list and additions/deletions pair of the    *)
(* bounds, under every choice of thresholds.                                *)

Thresholds == {33, 50, 100}

SmallGroupFloors == 0..(MaxMembers + 1)

OverrideCalls ==
    {[destination_list |-> Prefix(UidPool, n),
      destination_operations |-> [additions |-> Prefix(NewUidPool, k),
                                  deletions |-> Prefix(UidPool, d)],
      group_name |-> "g1"] :
        <<n, d, k>> \in {t \in (0..MaxMembers) \X (0..MaxMembers) \X (0..MaxAdditions) :
                            t[2] <= t[1]}}

InitOverride ==
    /\ settings \in [total_change_threshold : Thresholds,
                     deletions_change_threshold : Thresholds,
                     additions_change_threshold : Thresholds,
                     small_group_blind_update : SmallGroupFloors]
    /\ args = DefaultArgs
    /\ IdleConfig /\ IdleDirectories /\ IdleDictionaries /\ IdleCaches /\ IdleFlatten
    /\ run_status = TRUE
    /\ mutations = <<>>
    /\ call \in OverrideCalls
    /\ ret = EmptyDict
    /\ pc = "override"

CallDetermineChangePercent ==
    /\ pc = "override"
    /\ "change_data" \notin DOMAIN ret
    /\ ret' = ret @@ ("change_data" :>
                 _determine_change_percent(call.destination_list,
                                           call.destination_operations))
    /\ UNCHANGED <<configVars, directoryVars, dictionaryVars, cacheVars, flattenVars,
                   run_status, mutations, call, pc>>

CallCheckOverrideRequired ==
    /\ pc = "override"
    /\ "override_required" \notin DOMAIN ret
    /\ ret' = ret @@ ("override_required" :>
                 _check_override_required(call.destination_list,
                                          call.destination_operations,
                                          call.group_name))
    /\ UNCHANGED <<configVars, directoryVars, dictionaryVars, cacheVars, flattenVars,
                   run_status, mutations, call, pc>>

NextOverride == CallDetermineChangePercent \/ CallCheckOverrideRequired

SpecOverride == InitOverride /\ [][NextOverride]_vars

(* The three percentages and the floored size of the call, as the claim    *)
(* names them.                                                              *)
CallChangeData ==
    _determine_change_percent(call.destination_list, call.destination_operations)

CallBreach ==
    \/ CallChangeData.total_change_percent > settings.total_change_threshold
    \/ CallChangeData.deletions_change_percent > settings.deletions_change_threshold
    \/ CallChangeData.additions_change_percent > settings.additions_change_threshold

(* C2: _check_override_required returns True exactly when original_len is  *)
(* not below small_group_blind_update and some percentage is strictly above *)
(* its threshold; below the small-group floor the result is always False.   *)
C2_OverrideRequired ==
    (pc = "override" /\ "override_required" \in DOMAIN ret) =>
        /\ ret.override_required =
              (/\ ~(Max(Len(call.destination_list), 1) < settings.small_group_blind_update)
               /\ CallBreach)
        /\ (Max(Len(call.destination_list), 1) < settings.small_group_blind_update
               => ret.override_required = FALSE)

(* A small group whose additions alone are at 300% or more, not gated. *)
C2_Witness ==
    /\ pc = "override" /\ "override_required" \in DOMAIN ret
    /\ ret.override_required = FALSE
    /\ Len(call.destination_list) = 1
    /\ settings.small_group_blind_update = 2
    /\ CallChangeData.additions_change_percent >= 300
    /\ settings.additions_change_threshold = 100

-----------------------------------------------------------------------------
(* SpecSyncList: _build_sync_group_list applied to every pair of group      *)
(* dictionaries over the names and ids below.                               *)

SyncListNames == {"g1", "G1", "g2"}

UnassignedId == -1      \* _determine_group_id: no gid attribute

SyncListIds == {UnassignedId, 500, 501}

GroupDicts(server_type) ==
    UNION {[names -> {[id |-> i, server_type |-> server_type] : i \in SyncListIds}] :
               names \in SUBSET SyncListNames}

InitSyncList ==
    /\ settings = DefaultSettings
    /\ args = DefaultArgs
    /\ IdleConfig /\ IdleDirectories /\ IdleDictionaries /\ IdleCaches /\ IdleFlatten
    /\ run_status = TRUE
    /\ mutations = <<>>
    /\ \E first \in GroupDicts("ad"), second \in GroupDicts("openldap") :
           call = [first_group_dict |-> first, second_group_dict |-> second]
    /\ ret = EmptyDict
    /\ pc = "sync_list"

CallBuildSyncGroupList ==
    /\ pc = "sync_list"
    /\ "valid_sync_groups" \notin DOMAIN ret
    /\ ret' = ret @@ ("valid_sync_groups" :>
                 _build_sync_group_list(call.first_group_dict, call.second_group_dict))
    /\ UNCHANGED <<configVars, directoryVars, dictionaryVars, cacheVars, flattenVars,
                   run_status, mutations, call, pc>>

NextSyncList == CallBuildSyncGroupList

SpecSyncList == InitSyncList /\ [][NextSyncList]_vars

(* C6: a name is in the valid-sync list exactly when it is a key of both   *)
(* dictionaries and the two records hold the same id.                       *)
C6_SyncListIffSameNameSameId ==
    (pc = "sync_list" /\ "valid_sync_groups" \in DOMAIN ret) =>
        \A name \in SyncListNames :
            name \in Range(ret.valid_sync_groups) <=>
                /\ name \in DOMAIN call.first_group_dict
                /\ name \in DOMAIN call.second_group_dict
                /\ call.first_group_dict[name].id = call.second_group_dict[name].id

(* g1 in both with different ids, g2 in both with one id, G1 on one side.  *)
C6_Witness ==
    /\ pc = "sync_list" /\ "valid_sync_groups" \in DOMAIN ret
    /\ DOMAIN call.first_group_dict = {"g1", "G1", "g2"}
    /\ DOMAIN call.second_group_dict = {"g1", "g2"}
    /\ call.first_group_dict["g1"].id # call.second_group_dict["g1"].id
    /\ call.first_group_dict["g2"].id = call.second_group_dict["g2"].id
    /\ ret.valid_sync_groups = <<"g2">>

-----------------------------------------------------------------------------
(* SpecGate: _process_operations over two groups, for every combination of *)
(* proposed changes, override_required and override arguments.              *)

GateGroups == {"g1", "g2"}

GateOperations ==
    [additions : {<<>>, <<"p">>}, deletions : {<<>>, <<"a">>},
     override_required : BOOLEAN]

InitGate ==
    /\ settings = DefaultSettings
    /\ args \in [universal_override : BOOLEAN,
                 group_override : {<<>>, <<"g1">>, <<"g2">>, <<"g1", "g2">>}]
    /\ IdleConfig /\ IdleDirectories /\ IdleCaches /\ IdleFlatten
    /\ ad_group_dictionary = EmptyDict
    /\ openldap_group_dictionary =
           [g \in GateGroups |-> [id |-> 500, dn |-> OpenldapGroupDn(g),
                                  names |-> <<"a">>, server_type |-> "openldap"]]
    /\ group_operations \in [GateGroups -> GateOperations]
    /\ run_status \in BOOLEAN
    /\ mutations = <<>>
    /\ call = [i |-> 1]
    /\ ret = <<>>
    /\ pc = "process_operations"

(* One iteration of the loop of _process_operations. ret collects what     *)
(* _check_process_changes returned for each group.                          *)
ProcessOperationsGroup ==
    /\ pc = "process_operations"
    /\ call.i <= Len(KeysInOrder(group_operations))
    /\ \E r_add \in ResultCodes, r_del \in ResultCodes :
           LET out == _process_operations_group(
                          [mutations |-> mutations, run_status |-> run_status],
                          openldap_group_dictionary, group_operations, call.i,
                          r_add, r_del)
           IN  /\ mutations' = out.st.mutations
               /\ run_status' = out.st.run_status
               /\ ret' = Append(ret, [group |-> KeysInOrder(group_operations)[call.i],
                                      process_changes |-> out.process_changes])
    /\ call' = [i |-> call.i + 1]
    /\ UNCHANGED <<configVars, directoryVars, dictionaryVars, cacheVars, flattenVars, pc>>

ProcessOperationsReturn ==
    /\ pc = "process_operations"
    /\ call.i > Len(KeysInOrder(group_operations))
    /\ pc' = "done"
    /\ UNCHANGED <<configVars, directoryVars, dictionaryVars, cacheVars, flattenVars,
                   run_status, mutations, call, ret>>

NextGate == ProcessOperationsGroup \/ ProcessOperationsReturn

SpecGate == InitGate /\ [][NextGate]_vars

HasChanges(g) ==
    group_operations[g].additions # <<>> \/ group_operations[g].deletions # <<>>

OverrideEngaged(g) ==
    args.universal_override \/ \E k \in 1..Len(args.group_override) : args.group_override[k] = g

GatePredicate(g) ==
    HasChanges(g) /\ (~group_operations[g].override_required \/ OverrideEngaged(g))

Blocked(g) ==
    HasChanges(g) /\ group_operations[g].override_required /\ ~OverrideEngaged(g)

MutationsOf(g) == SelectSeq(mutations, LAMBDA m : m.dn = OpenldapGroupDn(g))

(* The modify calls _process_operations owes a group whose gate passes. *)
ExpectedActions(g) ==
    (IF group_operations[g].additions # <<>> THEN <<MODIFY_ADD>> ELSE <<>>)
        \o (IF group_operations[g].deletions # <<>> THEN <<MODIFY_DELETE>> ELSE <<>>)

(* C1: _check_process_changes returns True exactly when there are changes  *)
(* and override is not required or is engaged universally or for the group. *)
C1_ProcessChangesIffGate ==
    pc \in {"process_operations", "done"} =>
        \A k \in 1..Len(ret) : ret[k].process_changes = GatePredicate(ret[k].group)

(* Override required, universal override off, the group named in the list. *)
C1_Witness ==
    /\ pc = "done"
    /\ \E k \in 1..Len(ret) :
           /\ ret[k].process_changes
           /\ group_operations[ret[k].group].override_required
           /\ ~args.universal_override
           /\ ret[k].group \in Range(args.group_override)

(* C3: a group that needs an override that is not engaged gets no modify   *)
(* call and fails the run, and every other group is still evaluated: it    *)
(* gets exactly the modify calls of its own gate.                           *)
C3_BlockedGroupSkippedRunContinues ==
    pc = "done" =>
        /\ Len(ret) = Len(KeysInOrder(group_operations))
        /\ \A g \in GateGroups :
               /\ Blocked(g) => MutationsOf(g) = <<>> /\ run_status = FALSE
               /\ GatePredicate(g) =>
                      /\ Len(MutationsOf(g)) = Len(ExpectedActions(g))
                      /\ \A k \in 1..Len(MutationsOf(g)) :
                             /\ MutationsOf(g)[k].action = ExpectedActions(g)[k]
                             /\ MutationsOf(g)[k].connection = "openldap"

(* g1 is blocked, the run started clean, and g2 after it is mutated. *)
C3_Witness ==
    /\ pc = "done"
    /\ Blocked("g1")
    /\ GatePredicate("g2")
    /\ Len(MutationsOf("g2")) = 2
    /\ MutationsOf("g1") = <<>>
    /\ run_status = FALSE
    /\ \A k \in 1..Len(mutations) : mutations[k].result = 0

-----------------------------------------------------------------------------
(* SpecDiff: _generate_group_operations over two sync-eligible groups, for  *)
(* every directory content, exception table and country-control table       *)
(* below.                                                                   *)

MaxEntries == 2       \* secondary entries that share one uid

DiffGroups == <<"g1", "g2">>

(* The entry of CN=A: active with each kind of country attribute, disabled *)
(* in both ways, or without a login attribute.                              *)
AccountsA ==
    {[sAMAccountName |-> "A", userAccountControl |-> 512],
     [sAMAccountName |-> "A", userAccountControl |-> 512, c |-> ""],
     [sAMAccountName |-> "A", userAccountControl |-> 512, c |-> "GB"],
     [sAMAccountName |-> "A", userAccountControl |-> 512, c |-> "TW"],
     [sAMAccountName |-> "A", userAccountControl |-> ms_ad_disabled_user, c |-> "GB"],
     [sAMAccountName |-> "A", userAccountControl |-> ms_ad_disabled_user_no_expire,
      c |-> "GB"],
     [userAccountControl |-> 512]}

AccountsB ==
    {[sAMAccountName |-> "b", userAccountControl |-> 512, c |-> "GB"],
     [sAMAccountName |-> "b", userAccountControl |-> ms_ad_disabled_user, c |-> "TW"]}

(* CN=A may be missing from the primary directory. *)
DiffAccounts ==
    {("CN=B" :> b) : b \in AccountsB}
        \cup {("CN=A" :> a) @@ ("CN=B" :> b) : a \in AccountsA, b \in AccountsB}

Uids(a, x, none) == ("a" :> a) @@ ("b" :> 1) @@ ("x" :> x) @@ ("NONE" :> none)

(* An exception table with the secondary entries its target meets. *)
DiffExceptions ==
    {[exceptions |-> EmptyDict, openldap_uids |-> Uids(n, 0, 0)] : n \in 0..MaxEntries}
        \cup {[exceptions |-> ("a" :> "NONE"), openldap_uids |-> Uids(1, 0, n)] :
                  n \in 0..MaxEntries}
        \cup {[exceptions |-> ("a" :> "x"), openldap_uids |-> Uids(1, n, 0)] :
                  n \in 0..MaxEntries}
        \cup {[exceptions |-> ("b" :> "a"), openldap_uids |-> Uids(n, 0, 0)] : n \in 0..1}

DiffCountryControl ==
    {EmptyDict,
     ("g1" :> <<"GB">>),
     ("g1" :> <<"GB">>) @@ ("g2" :> <<"TW">>)}

AdGroup(group, names) ==
    [id |-> 500, dn |-> <<"CN", group, "ad_groups", "ad_base">>,
     names |-> names, server_type |-> "ad"]

OpenldapGroup(group, names) ==
    [id |-> 500, dn |-> OpenldapGroupDn(group), names |-> names,
     server_type |-> "openldap"]

InitDiff ==
    /\ settings = DefaultSettings
    /\ args = DefaultArgs
    /\ \E e \in DiffExceptions :
           /\ exceptions = e.exceptions
           /\ openldap_uids = e.openldap_uids
    /\ country_control \in DiffCountryControl
    /\ ad_accounts \in DiffAccounts
    /\ ad_objects = EmptyDict
    /\ IdleGroupEntries
    /\ \E names \in {<<"CN=A">>, <<"CN=A", "CN=B">>} :
           ad_group_dictionary =
               ("g1" :> AdGroup("g1", names))
                   @@ ("g2" :> AdGroup("g2", <<"CN=B", "CN=A">>))
    /\ \E names \in {<<>>, <<"a">>, <<"b", "c">>, <<"a", "b">>} :
           openldap_group_dictionary =
               ("g1" :> OpenldapGroup("g1", names))
                   @@ ("g2" :> OpenldapGroup("g2", <<"b">>))
    /\ group_operations = EmptyDict
    /\ IdleCaches /\ IdleFlatten
    /\ run_status = TRUE
    /\ mutations = <<>>
    /\ call = [valid_sync_groups |-> DiffGroups, i |-> 1]
    /\ ret = [lookups |-> {}, checks |-> {}]
    /\ pc = "generate_group_operations"

(* One iteration of the loop of _generate_group_operations. ret collects   *)
(* the calls of _lookup_ad_user and of _check_country_control.              *)
GenerateGroupOperationsGroup ==
    /\ pc = "generate_group_operations"
    /\ call.i <= Len(call.valid_sync_groups)
    /\ \E out \in {_generate_group_operations_group(
                         [user_lookup_cache |-> user_lookup_cache,
                          run_status |-> run_status,
                          lookups |-> ret.lookups, checks |-> ret.checks],
                         ad_group_dictionary, openldap_group_dictionary,
                         call.valid_sync_groups[call.i])} :
           /\ group_operations' =
                  group_operations @@ (call.valid_sync_groups[call.i] :> out.operations)
           /\ user_lookup_cache' = out.st.user_lookup_cache
           /\ run_status' = out.st.run_status
           /\ ret' = [lookups |-> out.st.lookups, checks |-> out.st.checks]
    /\ call' = [call EXCEPT !.i = @ + 1]
    /\ UNCHANGED <<configVars, directoryVars, ad_group_dictionary,
                   openldap_group_dictionary, object_lookup_cache, all_users,
                   flattenVars, mutations, pc>>

GenerateGroupOperationsReturn ==
    /\ pc = "generate_group_operations"
    /\ call.i > Len(call.valid_sync_groups)
    /\ pc' = "done"
    /\ UNCHANGED <<configVars, directoryVars, dictionaryVars, cacheVars, flattenVars,
                   run_status, mutations, call, ret>>

NextDiff == GenerateGroupOperationsGroup \/ GenerateGroupOperationsReturn

SpecDiff == InitDiff /\ [][NextDiff]_vars

(* What the directories make of a primary user, without the cache: the     *)
(* account data of its entry under the identity its login id is mapped to,  *)
(* if exactly one secondary entry holds that identity.                      *)
ResolvedAccount(ad_user) ==
    LET account_data == _get_account_data(TRUE, ad_user).account_data
        target == IF account_data.sAMAccountName \in DOMAIN exceptions
                  THEN exceptions[account_data.sAMAccountName]
                  ELSE account_data.sAMAccountName
    IN  IF Len(_user_search("openldap", target)) = 1
        THEN [account_data EXCEPT !.sAMAccountName = target]
        ELSE UnknownAccount

SourceMembers(g) == Range(ad_group_dictionary[g].names)

DestinationMembers(g) == Range(openldap_group_dictionary[g].names)

(* The source members of g that the four conditions of an addition admit. *)
AdditionMembers(g) ==
    {m \in SourceMembers(g) :
        /\ ResolvedAccount(m).sAMAccountName # ""
        /\ ResolvedAccount(m).account_active
        /\ ResolvedAccount(m).sAMAccountName \notin DestinationMembers(g)
        /\ _check_country_control(ResolvedAccount(m), g)}

(* C4: the additions of a group are exactly the resolved identities of the *)
(* source members that resolve to a non-empty identity and an active        *)
(* account, are not in the destination list and pass the country control    *)
(* of the group, one entry for each such member.                            *)
C4_AdditionsExactlyEligibleMembers ==
    /\ \A l \in ret.lookups : l.account_data = ResolvedAccount(l.ad_user)
    /\ \A g \in DOMAIN group_operations :
           /\ Range(group_operations[g].additions)
                  = {ResolvedAccount(m).sAMAccountName : m \in AdditionMembers(g)}
           /\ Len(group_operations[g].additions) = Cardinality(AdditionMembers(g))

(* CN=A is added to g1 and kept out of g2 by the country control of g2,    *)
(* CN=B is disabled, and the login id of CN=A is translated.                *)
C4_Witness ==
    /\ pc = "done"
    /\ group_operations["g1"].additions = <<"x">>
    /\ group_operations["g2"].additions = <<>>
    /\ exceptions = ("a" :> "x")
    /\ ResolvedAccount("CN=A") = [sAMAccountName |-> "x", country_code |-> "GB",
                                  account_active |-> TRUE]
    /\ ~ResolvedAccount("CN=B").account_active
    /\ SourceMembers("g1") = {"CN=A", "CN=B"}
    /\ "g2" \in DOMAIN country_control

(* C5: a destination member is in the deletions of its group exactly when  *)
(* no source member of the group resolves to an active account with that    *)
(* identity; source [A, B], both active and unrestricted, with destination  *)
(* [b, c] gives additions [a] and deletions [c].                            *)
C5_DeletionsIffNoActiveSourceMatch ==
    \A g \in DOMAIN group_operations :
        /\ Range(group_operations[g].deletions) \subseteq DestinationMembers(g)
        /\ \A d \in DestinationMembers(g) :
               d \in Range(group_operations[g].deletions) <=>
                   ~\E m \in SourceMembers(g) :
                        /\ ResolvedAccount(m).account_active
                        /\ ResolvedAccount(m).sAMAccountName = d
        /\ (/\ ad_group_dictionary[g].names = <<"CN=A", "CN=B">>
            /\ openldap_group_dictionary[g].names = <<"b", "c">>
            /\ ResolvedAccount("CN=A").sAMAccountName = "a"
            /\ ResolvedAccount("CN=A").account_active
            /\ ResolvedAccount("CN=B").sAMAccountName = "b"
            /\ ResolvedAccount("CN=B").account_active
            /\ g \notin DOMAIN country_control)
               => /\ group_operations[g].additions = <<"a">>
                  /\ group_operations[g].deletions = <<"c">>

(* The scenario of the claim in g1, and in g2 a destination member whose   *)
(* only source match went through the cache.                                *)
C5_Witness ==
    /\ pc = "done"
    /\ ad_group_dictionary["g1"].names = <<"CN=A", "CN=B">>
    /\ openldap_group_dictionary["g1"].names = <<"b", "c">>
    /\ country_control = EmptyDict
    /\ group_operations["g1"].additions = <<"a">>
    /\ group_operations["g1"].deletions = <<"c">>
    /\ group_operations["g2"].deletions = <<>>
    /\ "CN=B" \in DOMAIN user_lookup_cache

(* A country code that is the empty string or is absent. *)
NoCountryCode(account_data) == account_data.country_code \in {"", None}

(* C7: in a listed group a user is allowed exactly when it has no country  *)
(* code or its country code is in the allowed set of the group; in a group  *)
(* that is not listed, or with an empty table, every user is allowed; a     *)
(* user with no country code is never blocked.                              *)
C7_CountryControlAsClaimed ==
    \A k \in ret.checks :
        /\ k.valid_sync_group \in DOMAIN country_control =>
               (k.allowed <=>
                    \/ NoCountryCode(k.account_data)
                    \/ k.account_data.country_code
                           \in Range(country_control[k.valid_sync_group]))
        /\ k.valid_sync_group \notin DOMAIN country_control => k.allowed
        /\ NoCountryCode(k.account_data) => k.allowed

(* A primary user whose login id the exception table maps to "NONE". *)
NoneMapped(ad_user) ==
    /\ ad_user \in DOMAIN ad_accounts
    /\ "sAMAccountName" \in DOMAIN ad_accounts[ad_user]
    /\ LowerCase(ad_accounts[ad_user].sAMAccountName) \in DOMAIN exceptions
    /\ exceptions[LowerCase(ad_accounts[ad_user].sAMAccountName)] = "NONE"

LoginId(ad_user) == LowerCase(ad_accounts[ad_user].sAMAccountName)

(* C8 as claimed: a user mapped to "NONE" is in no additions and in no     *)
(* deletions, under its login id or under the identity it resolves to, and  *)
(* no resolution of it sets run_status to False.                            *)
C8_NoneUserNeverCandidate ==
    \A u \in {u \in DOMAIN ad_accounts : NoneMapped(u)} :
        /\ \A l \in ret.lookups :
               l.ad_user = u => l.run_status_after = l.run_status_before
        /\ \A g \in DOMAIN group_operations :
               \A id \in {LoginId(u)} \cup {l.account_data.sAMAccountName :
                                               l \in {l \in ret.lookups : l.ad_user = u}} :
                   /\ id \notin Range(group_operations[g].additions)
                   /\ id \notin Range(group_operations[g].deletions)

(* C8 amended: when no secondary entry has the uid "NONE", a user mapped   *)
(* to "NONE" resolves to the unknown account without setting run_status to  *)
(* False; it contributes no addition, and it is never the source match of   *)
(* a destination member: a destination member is in the deletions unless    *)
(* another source member resolves to it with an active account.             *)
C8_NoneUserResolvesToUnknown ==
    _user_search("openldap", "NONE") = <<>> =>
        /\ \A l \in ret.lookups :
               NoneMapped(l.ad_user) =>
                   /\ l.account_data = UnknownAccount
                   /\ l.run_status_after = l.run_status_before
        /\ \A g \in DOMAIN group_operations :
               LET others == {m \in SourceMembers(g) : ~NoneMapped(m)}
               IN  /\ Range(group_operations[g].additions)
                          \subseteq {ResolvedAccount(m).sAMAccountName : m \in others}
                   /\ \A d \in DestinationMembers(g) :
                          d \in Range(group_operations[g].deletions) <=>
                              ~\E m \in others :
                                   /\ ResolvedAccount(m).account_active
                                   /\ ResolvedAccount(m).sAMAccountName = d

(* CN=A is mapped to "NONE" and is a source member of both groups; g1      *)
(* lists its login id, which is deleted, and the run is still clean.        *)
C8_Witness ==
    /\ pc = "done"
    /\ NoneMapped("CN=A")
    /\ _user_search("openldap", "NONE") = <<>>
    /\ "CN=A" \in SourceMembers("g1")
    /\ "a" \in DestinationMembers("g1")
    /\ "a" \in Range(group_operations["g1"].deletions)
    /\ "a" \notin Range(group_operations["g1"].additions)
    /\ \E l \in ret.lookups : l.ad_user = "CN=A" /\ l.account_data = UnknownAccount
    /\ run_status = TRUE

(* The login id _get_account_data reads from the entry of a primary user: *)
(* the empty string when the entry or one of the attributes read is         *)
(* missing.                                                                 *)
LoginIdRead(ad_user) ==
    IF /\ ad_user \in DOMAIN ad_accounts
       /\ "userAccountControl" \in DOMAIN ad_accounts[ad_user]
       /\ "sAMAccountName" \in DOMAIN ad_accounts[ad_user]
    THEN LowerCase(ad_accounts[ad_user].sAMAccountName)
    ELSE ""

(* The number of secondary entries the filter uid=<uid> matches. *)
SecondaryMatches(uid) == IF uid \in DOMAIN openldap_uids THEN openldap_uids[uid] ELSE 0

(* C22: every call of _lookup_ad_user returns a value; it returns the      *)
(* unknown account with run_status False when the login id is outside the   *)
(* exception table and matches zero or several secondary entries, or is in  *)
(* the table with a target other than "NONE" that matches zero or several   *)
(* entries, and returns the unknown account with run_status as it was when  *)
(* the target is "NONE" and matches no entry.                               *)
C22_LookupFailureCases ==
    /\ pc = "done" =>
           \A g \in DOMAIN ad_group_dictionary :
               \A m \in SourceMembers(g) :
                   \E l \in ret.lookups :
                       /\ l.ad_user = m
                       /\ DOMAIN l.account_data
                              = {"sAMAccountName", "country_code", "account_active"}
    /\ \A l \in ret.lookups :
           LET id == LoginIdRead(l.ad_user)
               mapped == id \in DOMAIN exceptions
               target == IF mapped THEN exceptions[id] ELSE id
               n == SecondaryMatches(target)
           IN  /\ (~mapped /\ n # 1) =>
                      l.account_data = UnknownAccount /\ ~l.run_status_after
               /\ (mapped /\ target # "NONE" /\ n # 1) =>
                      l.account_data = UnknownAccount /\ ~l.run_status_after
               /\ (mapped /\ target = "NONE" /\ n = 0) =>
                      /\ l.account_data = UnknownAccount
                      /\ l.run_status_after = l.run_status_before

(* The login id of CN=A matches two secondary entries: the first lookup of *)
(* the run fails it, and CN=A is looked up again for g2 for want of a cache *)
(* entry.                                                                   *)
C22_Witness ==
    /\ pc = "done"
    /\ exceptions = EmptyDict
    /\ LoginIdRead("CN=A") = "a"
    /\ SecondaryMatches("a") = 2
    /\ "CN=A" \notin DOMAIN user_lookup_cache
    /\ \E l \in ret.lookups :
           /\ l.ad_user = "CN=A"
           /\ l.account_data = UnknownAccount
           /\ l.run_status_before
           /\ ~l.run_status_after
    /\ ~run_status

-----------------------------------------------------------------------------
(* SpecFlatten: the call of _flatten_nested_group that                      *)
(* _create_group_dictionary makes for the primary group GA, over every      *)
(* membership graph below. ad_objects maps a DN to the objectClass and the  *)
(* member list of its entry. stack holds the frames of the recursion, the   *)
(* innermost last; called_groups is the one list every frame shares.        *)

RecursionLimit == 4      \* frames of _flatten_nested_group the interpreter allows

UserClass == <<"top", "person", "organizationalPerson", "user">>
GroupClass == <<"top", "group">>
ContactClass == <<"top", "person", "organizationalPerson", "contact">>

(* list(dn): the characters of a DN, as list.extend takes a string. *)
Characters(dn) ==
    CASE dn = "GA" -> <<"G", "A">>
      [] dn = "GB" -> <<"G", "B">>
      [] dn = "GC" -> <<"G", "C">>
      [] dn = "U1" -> <<"U", "1">>
      [] dn = "U2" -> <<"U", "2">>
      [] dn = "X1" -> <<"X", "1">>

MembersOfGA ==
    {<<"U1">>, <<"GB">>, <<"GB", "U1">>, <<"U2", "GB">>, <<"GB", "GC">>,
     <<"GB", "X1", "GC">>, <<"X1">>}

MembersOfGB == {<<>>, <<"U1">>, <<"U2", "GC">>, <<"GC", "U2">>, <<"GC">>, <<"GA">>}

MembersOfGC == {<<>>, <<"U2">>, <<"GB">>, <<"GA", "U2">>, <<"X1", "U1">>}

FlattenObjects(ga, gb, gc) ==
    ("GA" :> [objectClass |-> GroupClass, member |-> ga])
        @@ ("GB" :> [objectClass |-> GroupClass, member |-> gb])
        @@ ("GC" :> [objectClass |-> GroupClass, member |-> gc])
        @@ ("U1" :> [objectClass |-> UserClass, member |-> <<>>])
        @@ ("U2" :> [objectClass |-> UserClass, member |-> <<>>])
        @@ ("X1" :> [objectClass |-> ContactClass, member |-> <<>>])

(* The value returned and object_lookup_cache after the call; the cache is *)
(* keyed by the filter (distinguishedName=<ad_object>).                     *)
_check_ad_object_type(cache, ad_object, object_type) ==
    LET response == IF ad_object \in DOMAIN cache
                    THEN cache[ad_object]
                    ELSE ad_objects[ad_object].objectClass
    IN  [result |-> object_type \in Range(response),
         cache |-> IF ad_object \in DOMAIN cache THEN cache
                   ELSE cache @@ (ad_object :> response)]

(* A frame of _flatten_nested_group at its first member. *)
Frame(group_members) ==
    [group_members |-> group_members, i |-> 1, return_set |-> {},
     nested_members |-> {}]

InitFlatten ==
    /\ settings = DefaultSettings
    /\ args = DefaultArgs
    /\ IdleConfig /\ IdleDictionaries /\ IdleCaches /\ IdleFlatten
    /\ ad_accounts = EmptyDict
    /\ openldap_uids = EmptyDict
    /\ IdleGroupEntries
    /\ \E ga \in MembersOfGA, gb \in MembersOfGB, gc \in MembersOfGC :
           ad_objects = FlattenObjects(ga, gb, gc)
    /\ run_status = TRUE
    /\ mutations = <<>>
    /\ call = [dn |-> "GA"]
    /\ ret = EmptyDict
    /\ pc = "create_group_dictionary"

(* _create_group_dictionary: the members of the group as the directory     *)
(* listed them, and the call with called_groups=[group["dn"]].              *)
CreateGroupDictionaryFlatten ==
    /\ pc = "create_group_dictionary"
    /\ called_groups' = <<call.dn>>
    /\ stack' = <<Frame(ad_objects[call.dn].member)>>
    /\ pc' = "flatten_nested_group"
    /\ UNCHANGED <<configVars, directoryVars, dictionaryVars, cacheVars,
                   run_status, mutations, call, ret>>

Top == stack[Len(stack)]

AtMember ==
    /\ pc = "flatten_nested_group"
    /\ Top.i <= Len(Top.group_members)

CurrentObject == Top.group_members[Top.i]

IsUser == _check_ad_object_type(object_lookup_cache, CurrentObject, "user")

IsGroup == _check_ad_object_type(IsUser.cache, CurrentObject, "group")

Advance(frame) == [frame EXCEPT !.i = @ + 1]

(* The member is a user. *)
FlattenUser ==
    /\ AtMember
    /\ IsUser.result
    /\ stack' = [stack EXCEPT ![Len(stack)] =
                     Advance([@ EXCEPT !.return_set = @ \cup {CurrentObject}])]
    /\ object_lookup_cache' = IsUser.cache
    /\ UNCHANGED <<configVars, directoryVars, dictionaryVars, user_lookup_cache, all_users,
                   called_groups, run_status, mutations, call, ret, pc>>

(* The member is a group that is not in called_groups: _group_search, and  *)
(* if it succeeds called_groups.extend(ad_object) and the recursive call,   *)
(* which the interpreter refuses beyond RecursionLimit frames.              *)
FlattenGroupExpand ==
    /\ AtMember
    /\ ~IsUser.result
    /\ IsGroup.result
    /\ CurrentObject \notin Range(called_groups)
    /\ object_lookup_cache' = IsGroup.cache
    /\ \E result \in ResultCodes :
           IF result # 0
           THEN /\ pc' = "exit"
                /\ UNCHANGED <<called_groups, stack>>
           ELSE /\ called_groups' = called_groups \o Characters(CurrentObject)
                /\ IF Len(stack) >= RecursionLimit
                   THEN pc' = "RecursionError" /\ UNCHANGED stack
                   ELSE /\ stack' = Append(stack, Frame(ad_objects[CurrentObject].member))
                        /\ UNCHANGED pc
    /\ UNCHANGED <<configVars, directoryVars, dictionaryVars, user_lookup_cache, all_users,
                   run_status, mutations, call, ret>>

(* The member is a group that is in called_groups. *)
FlattenGroupCalled ==
    /\ AtMember
    /\ ~IsUser.result
    /\ IsGroup.result
    /\ CurrentObject \in Range(called_groups)
    /\ stack' = [stack EXCEPT ![Len(stack)] = Advance(@)]
    /\ object_lookup_cache' = IsGroup.cache
    /\ UNCHANGED <<configVars, directoryVars, dictionaryVars, user_lookup_cache, all_users,
                   called_groups, run_status, mutations, call, ret, pc>>

(* The member is neither: a warning. *)
FlattenUnexpected ==
    /\ AtMember
    /\ ~IsUser.result
    /\ ~IsGroup.result
    /\ stack' = [stack EXCEPT ![Len(stack)] = Advance(@)]
    /\ object_lookup_cache' = IsGroup.cache
    /\ UNCHANGED <<configVars, directoryVars, dictionaryVars, user_lookup_cache, all_users,
                   called_groups, run_status, mutations, call, ret, pc>>

(* The loop of the innermost frame is over: the frame returns the union of *)
(* its two sets, which its caller assigns to nested_members, or which       *)
(* _create_group_dictionary takes as the members of the group.              *)
FlattenReturn ==
    /\ pc = "flatten_nested_group"
    /\ Top.i > Len(Top.group_members)
    /\ LET returned == Top.nested_members \cup Top.return_set
       IN  IF Len(stack) > 1
           THEN /\ stack' = [Prefix(stack, Len(stack) - 1) EXCEPT ![Len(stack) - 1] =
                                 Advance([@ EXCEPT !.nested_members = returned])]
                /\ UNCHANGED <<ret, pc>>
           ELSE /\ stack' = <<>>
                /\ ret' = ("group_members" :> returned)
                /\ pc' = "done"
    /\ UNCHANGED <<configVars, directoryVars, dictionaryVars, cacheVars,
                   called_groups, run_status, mutations, call>>

NextFlatten ==
    \/ CreateGroupDictionaryFlatten
    \/ FlattenUser
    \/ FlattenGroupExpand
    \/ FlattenGroupCalled
    \/ FlattenUnexpected
    \/ FlattenReturn

(* The interpreter runs the call until it returns, exits or raises. *)
SpecFlatten == InitFlatten /\ [][NextFlatten]_vars /\ WF_vars(NextFlatten)

FlattenGroups == {"GA", "GB", "GC"}

(* The objects reached from a member list through k levels of nesting. *)
ReachedWithin(members, k) ==
    LET reached[j \in 0..k] ==
            IF j = 0 THEN Range(members)
            ELSE reached[j - 1] \cup
                     UNION {Range(ad_objects[g].member) :
                                g \in reached[j - 1] \cap FlattenGroups}
    IN  reached[k]

Reachable(members) == ReachedWithin(members, Cardinality(FlattenGroups))

Acyclic == \A g \in FlattenGroups : g \notin Reachable(ad_objects[g].member)

(* C9: for every membership graph, cycles that do not pass through the     *)
(* flattened group included, the call made by _create_group_dictionary      *)
(* comes to an end: it returns, or the process exits on a failed search.    *)
C9_FlattenTerminates == <>(pc \in {"done", "exit"})

(* C10: on an acyclic graph the call returns exactly the users reachable   *)
(* from the member list through nested groups, and nothing else.            *)
C10_FlattenReturnsReachableUsers ==
    (pc = "done" /\ Acyclic) =>
        ret.group_members =
            {o \in Reachable(ad_objects[call.dn].member) :
                 "user" \in Range(ad_objects[o].objectClass)}

-----------------------------------------------------------------------------
(* Id allocation (src/src/utils/utilities.py).                              *)

(* list.sort(): the elements in ascending order, built by insertion. *)
SortedList(numbers) ==
    LET Insert(s, x) ==
            LET k == Cardinality({j \in 1..Len(s) : s[j] <= x})
            IN  SubSeq(s, 1, k) \o <<x>> \o SubSeq(s, k + 1, Len(s))
        f[i \in 0..Len(numbers)] ==
            IF i = 0 THEN <<>> ELSE Insert(f[i - 1], numbers[i])
    IN  f[Len(numbers)]

(* The docstring's reading: the highest value + 1, or the offset if that   *)
(* is greater.                                                             *)
fill_array_gaps_highest_plus_one(numbers, offset) ==
    LET sorted == SortedList(numbers)
        highest == IF sorted = <<>> THEN offset - 1 ELSE sorted[Len(sorted)]
    IN  [numbers |-> sorted, offset |-> Max(highest + 1, offset)]

(* fill_array_gaps: numbers.sort(), then offset is incremented while it is *)
(* in numbers. Every increment steps over a different element of numbers,  *)
(* so the loop has ended after Len(numbers) iterations. The sorted list is *)
(* returned with the result because the sort is seen by the caller.        *)
fill_array_gaps(numbers, offset) ==
    LET sorted == SortedList(numbers)
        while[k \in 0..Len(numbers)] ==
            IF k = 0
            THEN offset
            ELSE Only({IF o \in Range(sorted) THEN o + 1 ELSE o : o \in {while[k - 1]}})
    IN  [numbers |-> sorted, offset |-> while[Len(numbers)]]

-----------------------------------------------------------------------------
(* SpecAlloc: fill_array_gaps applied to every list of at most MaxIds ids  *)
(* of AllocIds and to the lists of the documentation and the unit tests.   *)

MaxIds == 4           \* ids in use handed to fill_array_gaps

AllocIds == {0, 198, 200, 201, 202}

AllocOffsets == {199, 200}

AllocExamples ==
    {<<200, 202, 190, 201, 204>>, <<202, 190, 201, 203, 200>>,
     <<202, 190, 201>>, <<198, 190, 50>>}

AllocCalls ==
    {[numbers |-> n, offset |-> o] :
         n \in UNION {[1..len -> AllocIds] : len \in 0..MaxIds} \cup AllocExamples,
         o \in AllocOffsets}

InitAlloc ==
    /\ settings = DefaultSettings
    /\ args = DefaultArgs
    /\ IdleConfig /\ IdleDirectories /\ IdleDictionaries /\ IdleCaches /\ IdleFlatten
    /\ run_status = TRUE
    /\ mutations = <<>>
    /\ call \in AllocCalls
    /\ ret = EmptyDict
    /\ pc = "fill_array_gaps"

CallFillArrayGaps ==
    /\ pc = "fill_array_gaps"
    /\ ret' = fill_array_gaps(call.numbers, call.offset)
    /\ pc' = "allocated"
    /\ UNCHANGED <<configVars, directoryVars, dictionaryVars, cacheVars, flattenVars,
                   run_status, mutations, call>>

NextAlloc == CallFillArrayGaps

SpecAlloc == InitAlloc /\ [][NextAlloc]_vars

-----------------------------------------------------------------------------
(* SpecPercent: _determine_change_percent applied to destination lists of  *)
(* up to PercentMembers members with up to PercentAdditions additions and  *)
(* any number of deletions the destination list allows.                    *)

PercentMembers == 5       \* members of the destination list
PercentAdditions == 23    \* proposed additions

(* n distinct member names. *)
Names(letter, n) == [i \in 1..n |-> letter \o ToString(i)]

PercentCalls ==
    {[destination_list |-> Names("m", n),
      destination_operations |-> [additions |-> Names("n", k),
                                  deletions |-> Names("m", d)]] :
        <<n, d, k>> \in {t \in (0..PercentMembers) \X (0..PercentMembers)
                                  \X (0..PercentAdditions) : t[2] <= t[1]}}

InitPercent ==
    /\ settings = DefaultSettings
    /\ args = DefaultArgs
    /\ IdleConfig /\ IdleDirectories /\ IdleDictionaries /\ IdleCaches /\ IdleFlatten
    /\ run_status = TRUE
    /\ mutations = <<>>
    /\ call \in PercentCalls
    /\ ret = EmptyDict
    /\ pc = "determine_change_percent"

DetermineChangePercent ==
    /\ pc = "determine_change_percent"
    /\ ret' = [change_data |->
                   _determine_change_percent(call.destination_list,
                                             call.destination_operations)]
    /\ pc' = "determined"
    /\ UNCHANGED <<configVars, directoryVars, dictionaryVars, cacheVars, flattenVars,
                   run_status, mutations, call>>

NextPercent == DetermineChangePercent

SpecPercent == InitPercent /\ [][NextPercent]_vars

(* C15: original_len is the number of destination members, at least 1, and *)
(* the three percentages are the exact integer floors of                   *)
(* (additions + deletions) * 100 / original_len, deletions * 100 /         *)
(* original_len and additions * 100 / original_len.                        *)
C15_PercentagesExactFloor ==
    pc = "determined" =>
        LET additions == Len(call.destination_operations.additions)
            deletions == Len(call.destination_operations.deletions)
            original_len == Max(Len(call.destination_list), 1)
        IN  /\ ret.change_data.original_len = original_len
            /\ ret.change_data.total_change_percent
                   = ((additions + deletions) * 100) \div original_len
            /\ ret.change_data.deletions_change_percent
                   = (deletions * 100) \div original_len
            /\ ret.change_data.additions_change_percent
                   = (additions * 100) \div original_len

-----------------------------------------------------------------------------
(* Group entries of the two directories, group dictionaries and creation   *)
(* of missing secondary groups.                                            *)

(* config[server_type]["schema"]["objects"]["group"]["gid_number"] *)
GroupIdAttribute == "gidNumber"

(* config["openldap"]["schema"]["new_group"]["min_member_number"] *)
min_member_number == 500

AdGroupDn(group) == <<"CN", group, "ad_groups", "ad_base">>

(* A directory entry with one attribute set to a value. *)
WithAttribute(entry, attribute, value) ==
    [a \in DOMAIN entry \cup {attribute} |-> IF a = attribute THEN value ELSE entry[a]]

(* A directory entry without an attribute. *)
WithoutAttribute(entry, attribute) ==
    [a \in DOMAIN entry \ {attribute} |-> entry[a]]

ValuesOf(entry, attribute) ==
    IF attribute \in DOMAIN entry THEN entry[attribute] ELSE <<>>

(* Whether a directory holding entries can answer the mutation m with      *)
(* success: an added entry is new, added values are new and distinct,      *)
(* deleted values are there. Any mutation can be answered with a failure.  *)
Accepted(entries, m) ==
    LET group == m.dn[2]
    IN  IF m.op = "add"
        THEN group \notin DOMAIN entries
        ELSE /\ group \in DOMAIN entries
             /\ m.action = MODIFY_ADD =>
                    /\ \A i, j \in 1..Len(m.values) : m.values[i] = m.values[j] => i = j
                    /\ Range(m.values) \cap Range(ValuesOf(entries[group], m.attribute)) = {}
             /\ m.action = MODIFY_DELETE =>
                    Range(m.values) \subseteq Range(ValuesOf(entries[group], m.attribute))

(* The entries of a directory after the mutation m: unchanged unless the   *)
(* directory answered with success.                                         *)
Mutated(entries, m) ==
    LET group == m.dn[2]
    IN  IF m.result # 0
        THEN entries
        ELSE IF m.op = "add"
        THEN entries @@ (group :> [cn |-> <<group>>, gidNumber |-> m.values[1]])
        ELSE LET entry == entries[group]
                 old == ValuesOf(entry, m.attribute)
                 kept == SelectSeq(old, LAMBDA v : v \notin Range(m.values))
                 new == IF m.action = MODIFY_REPLACE
                        THEN WithAttribute(entry, m.attribute, m.values[1])
                        ELSE IF m.action = MODIFY_ADD
                        THEN WithAttribute(entry, m.attribute, old \o m.values)
                        ELSE IF kept = <<>>
                        THEN WithoutAttribute(entry, m.attribute)
                        ELSE WithAttribute(entry, m.attribute, kept)
             IN  [g \in DOMAIN entries |-> IF g = group THEN new ELSE entries[g]]

(* connection.response of a group search that succeeded. *)
GroupSearchResponse(server_type, entries) ==
    LET keys == KeysInOrder(entries)
    IN  [i \in 1..Len(keys) |->
            [dn |-> IF server_type = "ad" THEN AdGroupDn(keys[i])
                    ELSE OpenldapGroupDn(keys[i]),
             attributes |-> entries[keys[i]]]]

(* The primary directory gives the name as a string, the secondary as a    *)
(* list.                                                                    *)
_determine_group_name(server_type, group_name_object) ==
    IF server_type = "openldap" THEN group_name_object[1] ELSE group_name_object

_determine_group_id(server_type, group) ==
    IF GroupIdAttribute \in DOMAIN group.attributes
    THEN group.attributes[GroupIdAttribute]
    ELSE UnassignedId

_determine_group_members(server_type, group) ==
    IF GroupMembersAttribute(server_type) \in DOMAIN group.attributes
    THEN group.attributes[GroupMembersAttribute(server_type)]
    ELSE <<>>

(* _flatten_nested_group on a group all of whose members are users: every  *)
(* member takes the user branch of the loop and nested_members stays       *)
(* empty. The value is the returned set and object_lookup_cache.           *)
_flatten_nested_group_of_users(cache, called, group_members) ==
    LET loop[i \in 0..Len(group_members)] ==
            IF i = 0
            THEN [cache |-> cache, return_set |-> {}]
            ELSE Only({LET is_user == _check_ad_object_type(acc.cache, group_members[i],
                                                            "user")
                       IN  [cache |-> is_user.cache,
                            return_set |-> IF is_user.result
                                           THEN acc.return_set \cup {group_members[i]}
                                           ELSE acc.return_set] :
                          acc \in {loop[i - 1]}})
    IN  loop[Len(group_members)]

(* The dictionary and object_lookup_cache after the call. For "ad" the     *)
(* names of a group are the set _flatten_nested_group returned.            *)
_create_group_dictionary(cache, server_type, search_results) ==
    LET loop[i \in 0..Len(search_results)] ==
            IF i = 0
            THEN [cache |-> cache, group_dict |-> EmptyDict]
            ELSE Only({LET group == search_results[i]
                           group_name == _determine_group_name(server_type,
                                                               group.attributes.cn)
                           group_id == _determine_group_id(server_type, group)
                           group_members == _determine_group_members(server_type, group)
                           flat == _flatten_nested_group_of_users(acc.cache, <<group.dn>>,
                                                                  group_members)
                       IN  [cache |-> IF server_type = "ad" THEN flat.cache ELSE acc.cache,
                            group_dict |->
                                [g \in DOMAIN acc.group_dict \cup {group_name} |->
                                    IF g = group_name
                                    THEN [id |-> group_id, dn |-> group.dn,
                                          names |-> IF server_type = "ad"
                                                    THEN flat.return_set
                                                    ELSE group_members,
                                          server_type |-> server_type]
                                    ELSE acc.group_dict[g]]] :
                          acc \in {loop[i - 1]}})
    IN  loop[Len(search_results)]

(* The orders in which a set can be iterated. *)
Orders(S) == {s \in [1..Cardinality(S) -> S] : Range(s) = S}

(* A primary dictionary with each set of names in an order of iteration. *)
IterationOrders(group_dict) ==
    {[g \in DOMAIN group_dict |-> [group_dict[g] EXCEPT !.names = order[g]]] :
         order \in {o \in [DOMAIN group_dict -> UNION {Orders(group_dict[g].names) :
                                                          g \in DOMAIN group_dict}] :
                       \A g \in DOMAIN group_dict : o[g] \in Orders(group_dict[g].names)}}

(* get_next_gid_uid_number for member "group": the search for every entry  *)
(* of the secondary directory with a gidNumber, whose result code is not   *)
(* looked at, and fill_array_gaps on 0 and the ids of the response. A      *)
(* search that failed has an empty response.                               *)
get_next_gid_uid_number(entries, result) ==
    LET response == IF result = 0
                    THEN SelectSeq(GroupSearchResponse("openldap", entries),
                                   LAMBDA e : GroupIdAttribute \in DOMAIN e.attributes)
                    ELSE <<>>
        gid_number_list == <<0>> \o [i \in 1..Len(response) |->
                                        response[i].attributes[GroupIdAttribute]]
    IN  fill_array_gaps(gid_number_list, min_member_number).offset

(* What the directories and the manifest file answer during one call of    *)
(* _new_ldap_group: the result code of the id search, and for the id       *)
(* write-back and for the add the result code and whether the manifest     *)
(* line could be written.                                                  *)
MutationOutcomes ==
    {[result |-> r, manifest |-> w] : r \in ResultCodes, w \in BOOLEAN}

NewGroupOutcomes == [search : ResultCodes, gid : MutationOutcomes, add : MutationOutcomes]

(* group_details.get("id") and group_details["id"] != -1 *)
IdAssigned(group_details) == group_details.id # 0 /\ group_details.id # UnassignedId

(* The dictionaries, run_status, the mutations and the entries of the two  *)
(* directories after the call; st.exit is TRUE when write_manifest left    *)
(* the process, st.created collects the groups created with a fresh id.    *)
_new_ldap_group(st, server_type, group, o) ==
    LET group_details == st.ad_group_dictionary[group]
        new_group_dn == OpenldapGroupDn(group)
        assigned == IdAssigned(group_details)
        id == IF assigned THEN group_details.id
              ELSE get_next_gid_uid_number(st.openldap_groups, o.search)
        gid_change == [connection |-> "ad", op |-> "modify", dn |-> group_details.dn,
                       action |-> MODIFY_REPLACE, attribute |-> GroupIdAttribute,
                       values |-> <<id>>, result |-> o.gid.result]
        st1 == IF assigned
               THEN st
               ELSE [st EXCEPT
                        !.mutations = Append(@, gid_change),
                        !.ad_groups = Mutated(@, gid_change),
                        !.exit = ~o.gid.manifest,
                        !.run_status = IF o.gid.manifest /\ o.gid.result # 0
                                       THEN FALSE ELSE @,
                        !.ad_group_dictionary =
                            IF o.gid.manifest /\ o.gid.result = 0
                            THEN [@ EXCEPT ![group].id = id]
                            ELSE @]
        add == [connection |-> server_type, op |-> "add", dn |-> new_group_dn,
                action |-> None, attribute |-> GroupIdAttribute, values |-> <<id>>,
                result |-> o.add.result]
    IN  IF st1.exit
        THEN st1
        ELSE [st1 EXCEPT
                 !.mutations = Append(@, add),
                 !.openldap_groups = Mutated(@, add),
                 !.exit = ~o.add.manifest,
                 !.created = IF o.add.result = 0 /\ ~assigned THEN @ \cup {group} ELSE @,
                 !.run_status = IF o.add.manifest /\ o.add.result # 0 THEN FALSE ELSE @,
                 !.openldap_group_dictionary =
                     IF o.add.manifest /\ o.add.result = 0
                     THEN @ @@ (group :> [id |-> id, dn |-> new_group_dn,
                                          server_type |-> "openldap", names |-> <<>>])
                     ELSE @]

(* _generate_group_operations: the loop over valid_sync_groups. *)
_generate_group_operations(st, source_dict, destination_dict, valid_sync_groups) ==
    LET loop[i \in 0..Len(valid_sync_groups)] ==
            IF i = 0
            THEN [st |-> st, group_operations |-> EmptyDict]
            ELSE Only({Only({[st |-> out.st,
                              group_operations |->
                                  acc.group_operations
                                      @@ (valid_sync_groups[i] :> out.operations)] :
                                out \in {_generate_group_operations_group(
                                             acc.st, source_dict, destination_dict,
                                             valid_sync_groups[i])}}) :
                          acc \in {loop[i - 1]}})
    IN  loop[Len(valid_sync_groups)]

(* write_monitoring_log: the files after the call, and whether the call    *)
(* left the process because the file could not be written.                 *)
write_monitoring_log(files, status, runner, writable) ==
    IF writable
    THEN [files |-> WithAttribute(files, runner, status), exit |-> FALSE]
    ELSE [files |-> files, exit |-> TRUE]

(* The entries of a directory after the mutations ms, in order. *)
MutatedAll(entries, ms) ==
    LET f[i \in 0..Len(ms)] ==
            IF i = 0 THEN entries ELSE Only({Mutated(e, ms[i]) : e \in {f[i - 1]}})
    IN  f[Len(ms)]

(* Whether the directory can give the answers recorded in ms. *)
AcceptedAll(entries, ms) ==
    \A i \in 1..Len(ms) :
        ms[i].result = 0 => Accepted(MutatedAll(entries, SubSeq(ms, 1, i - 1)), ms[i])

-----------------------------------------------------------------------------
(* SpecGroupSync: runs of AdLdapGroupSync._main, one after the other,      *)
(* against two directories that only the runs change. Every directory      *)
(* answer (result codes of searches and mutations) and every write of the  *)
(* manifest and of the monitoring file can fail.                           *)

MaxRuns == 2          \* consecutive runs

(* The users and the exception table: CN=A active in a country g1 allows,  *)
(* active in another country or disabled; or CN=A active and its uid       *)
(* missing from the secondary directory, mapped to NONE, or the uid CN=B  *)
(* is mapped to.                                                           *)
GroupSyncAccount(a) ==
    ("CN=A" :> a) @@ ("CN=B" :> [sAMAccountName |-> "b", userAccountControl |-> 512,
                                 c |-> "GB"])

ActiveA == [sAMAccountName |-> "A", userAccountControl |-> 512, c |-> "GB"]

GroupSyncUsers ==
    {[ad_accounts |-> GroupSyncAccount(a), exceptions |-> EmptyDict,
      openldap_uids |-> Uids(1, 0, 0)] :
         a \in {ActiveA,
                [sAMAccountName |-> "A", userAccountControl |-> 512, c |-> "TW"],
                [sAMAccountName |-> "A", userAccountControl |-> ms_ad_disabled_user,
                 c |-> "GB"]}}
        \cup {[ad_accounts |-> GroupSyncAccount(ActiveA), exceptions |-> e,
               openldap_uids |-> Uids(n, 0, 0)] :
                  <<e, n>> \in {<<EmptyDict, 0>>, <<("a" :> "NONE"), 1>>,
                                <<("b" :> "a"), 1>>}}

(* Primary groups: g1 has an id, g3 may be there, with or without an id. *)
GroupSyncAdGroups ==
    {("g1" :> [cn |-> "g1", gidNumber |-> 500, member |-> m1]) @@ g3 :
         m1 \in {<<"CN=A">>, <<"CN=A", "CN=B">>},
         g3 \in {EmptyDict,
                 ("g3" :> [cn |-> "g3", member |-> <<"CN=B">>]),
                 ("g3" :> [cn |-> "g3", gidNumber |-> 502, member |-> <<"CN=B">>])}}

GroupSyncOpenldapGroups ==
    {("g1" :> [cn |-> <<"g1">>, gidNumber |-> 500]),
     ("g1" :> [cn |-> <<"g1">>, gidNumber |-> 500, memberUid |-> <<"a">>]),
     ("g1" :> [cn |-> <<"g1">>, gidNumber |-> 500, memberUid |-> <<"b", "c">>])}

UserObjects ==
    ("CN=A" :> [objectClass |-> UserClass, member |-> <<>>])
        @@ ("CN=B" :> [objectClass |-> UserClass, member |-> <<>>])

(* What ret keeps of a sequence of runs: the number of the run, the groups *)
(* created with a fresh id so far, the groups whose changes the previous   *)
(* run applied, the numbers of mutations issued when a search failed, and  *)
(* the lookups and country checks of _generate_group_operations.           *)
FirstRun ==
    [run |-> 1, created |-> {}, applied |-> {}, failed_searches |-> {},
     lookups |-> {}, checks |-> {}]

InitGroupSync ==
    /\ settings = DefaultSettings
    /\ args \in {[universal_override |-> u, group_override |-> <<>>] : u \in BOOLEAN}
    /\ \E u \in GroupSyncUsers :
           /\ ad_accounts = u.ad_accounts
           /\ exceptions = u.exceptions
           /\ openldap_uids = u.openldap_uids
    /\ country_control = ("g1" :> <<"GB">>)
    /\ ad_objects = UserObjects
    /\ ad_groups \in GroupSyncAdGroups
    /\ openldap_groups \in GroupSyncOpenldapGroups
    /\ openldap_users = EmptyDict
    /\ markers = EmptyDict
    /\ IdleDictionaries /\ IdleCaches /\ IdleFlatten
    /\ run_status = TRUE
    /\ mutations = <<>>
    /\ call = EmptyDict
    /\ ret = FirstRun
    /\ pc = "group_search_ad"

(* _group_search: a failed search writes the marker and leaves. *)
GroupSearchError(next) ==
    /\ \E out \in {write_monitoring_log(markers, FALSE, "group_sync", TRUE),
                   write_monitoring_log(markers, FALSE, "group_sync", FALSE)} :
           markers' = out.files
    /\ ret' = [ret EXCEPT !.failed_searches = @ \cup {Len(mutations)}]
    /\ pc' = "exit"
    /\ UNCHANGED <<configVars, ad_accounts, openldap_uids, ad_objects, ad_groups,
                   openldap_groups, openldap_users, dictionaryVars, cacheVars,
                   flattenVars, run_status, mutations, call>>

(* _main: the search of the primary groups and _create_group_dictionary. *)
MainAdGroupDictionary ==
    /\ pc = "group_search_ad"
    /\ \E result \in ResultCodes :
           IF result # 0
           THEN GroupSearchError("group_search_ad")
           ELSE /\ \E out \in {_create_group_dictionary(
                                   object_lookup_cache, "ad",
                                   GroupSearchResponse("ad", ad_groups))} :
                       /\ ad_group_dictionary' \in IterationOrders(out.group_dict)
                       /\ object_lookup_cache' = out.cache
                /\ pc' = "group_search_openldap"
                /\ UNCHANGED <<configVars, directoryVars, openldap_group_dictionary,
                               group_operations, user_lookup_cache, all_users,
                               flattenVars, run_status, mutations, call, ret>>

(* _main: the search of the secondary groups and _create_group_dictionary. *)
MainOpenldapGroupDictionary ==
    /\ pc = "group_search_openldap"
    /\ \E result \in ResultCodes :
           IF result # 0
           THEN GroupSearchError("group_search_openldap")
           ELSE /\ openldap_group_dictionary' =
                       _create_group_dictionary(
                           object_lookup_cache, "openldap",
                           GroupSearchResponse("openldap", openldap_groups)).group_dict
                /\ call' = [groups |-> KeysInOrder(ad_group_dictionary), i |-> 1]
                /\ pc' = "add_missing_openldap_groups"
                /\ UNCHANGED <<configVars, directoryVars, ad_group_dictionary,
                               group_operations, cacheVars, flattenVars, run_status,
                               mutations, ret>>

(* One iteration of the loop of _add_missing_openldap_groups. *)
AddMissingOpenldapGroup ==
    /\ pc = "add_missing_openldap_groups"
    /\ call.i <= Len(call.groups)
    /\ IF call.groups[call.i] \in DOMAIN openldap_group_dictionary
       THEN UNCHANGED <<ad_groups, openldap_groups, ad_group_dictionary,
                        openldap_group_dictionary, run_status, mutations, ret, pc>>
       ELSE \E o \in NewGroupOutcomes :
               \E out \in {_new_ldap_group(
                               [ad_group_dictionary |-> ad_group_dictionary,
                                openldap_group_dictionary |-> openldap_group_dictionary,
                                run_status |-> run_status, mutations |-> mutations,
                                ad_groups |-> ad_groups,
                                openldap_groups |-> openldap_groups,
                                exit |-> FALSE, created |-> ret.created],
                               "openldap", call.groups[call.i], o)} :
                   /\ ad_groups' = out.ad_groups
                   /\ openldap_groups' = out.openldap_groups
                   /\ ad_group_dictionary' = out.ad_group_dictionary
                   /\ openldap_group_dictionary' = out.openldap_group_dictionary
                   /\ run_status' = out.run_status
                   /\ mutations' = out.mutations
                   /\ ret' = [ret EXCEPT
                                 !.created = out.created,
                                 !.failed_searches =
                                     IF /\ o.search # 0
                                        /\ ~IdAssigned(ad_group_dictionary[
                                                           call.groups[call.i]])
                                     THEN @ \cup {Len(mutations)} ELSE @]
                   /\ pc' = IF out.exit THEN "exit" ELSE pc
    /\ call' = [call EXCEPT !.i = @ + 1]
    /\ UNCHANGED <<configVars, ad_accounts, openldap_uids, ad_objects, openldap_users,
                   markers, group_operations, cacheVars, flattenVars>>

(* _main: _build_sync_group_list after the loop of                         *)
(* _add_missing_openldap_groups has ended.                                 *)
MainBuildSyncGroupList ==
    /\ pc = "add_missing_openldap_groups"
    /\ call.i > Len(call.groups)
    /\ call' = [valid_sync_groups |->
                    _build_sync_group_list(ad_group_dictionary, openldap_group_dictionary)]
    /\ pc' = "generate_group_operations"
    /\ UNCHANGED <<configVars, directoryVars, dictionaryVars, cacheVars, flattenVars,
                   run_status, mutations, ret>>

(* _main: _generate_group_operations. *)
MainGenerateGroupOperations ==
    /\ pc = "generate_group_operations"
    /\ \E out \in {_generate_group_operations(
                       [user_lookup_cache |-> user_lookup_cache,
                        run_status |-> run_status,
                        lookups |-> ret.lookups, checks |-> ret.checks],
                       ad_group_dictionary, openldap_group_dictionary,
                       call.valid_sync_groups)} :
           /\ group_operations' = out.group_operations
           /\ user_lookup_cache' = out.st.user_lookup_cache
           /\ run_status' = out.st.run_status
           /\ ret' = [ret EXCEPT !.lookups = out.st.lookups, !.checks = out.st.checks]
    /\ call' = [i |-> 1]
    /\ pc' = "process_operations"
    /\ UNCHANGED <<configVars, directoryVars, ad_group_dictionary,
                   openldap_group_dictionary, object_lookup_cache, all_users,
                   flattenVars, mutations>>

(* The modify calls one iteration of _process_operations issues when the   *)
(* directory answers r_add and r_del.                                      *)
IssuedBy(out) == SubSeq(out.st.mutations, Len(mutations) + 1, Len(out.st.mutations))

(* One iteration of the loop of _process_operations, every manifest line   *)
(* written.                                                                *)
MainProcessOperationsGroup ==
    /\ pc = "process_operations"
    /\ call.i <= Len(KeysInOrder(group_operations))
    /\ \E r_add \in ResultCodes, r_del \in ResultCodes :
           \E out \in {_process_operations_group(
                           [mutations |-> mutations, run_status |-> run_status],
                           openldap_group_dictionary, group_operations, call.i,
                           r_add, r_del)} :
               /\ AcceptedAll(openldap_groups, IssuedBy(out))
               /\ openldap_groups' = MutatedAll(openldap_groups, IssuedBy(out))
               /\ mutations' = out.st.mutations
               /\ run_status' = out.st.run_status
    /\ call' = [i |-> call.i + 1]
    /\ UNCHANGED <<configVars, ad_accounts, openldap_uids, ad_objects, ad_groups,
                   openldap_users, markers, dictionaryVars, cacheVars, flattenVars,
                   ret, pc>>

(* One iteration of the loop of _process_operations in which the manifest  *)
(* line of a modify call cannot be written: write_manifest leaves the      *)
(* process after that call.                                                *)
MainProcessOperationsManifestError ==
    /\ pc = "process_operations"
    /\ call.i <= Len(KeysInOrder(group_operations))
    /\ \E r_add \in ResultCodes, r_del \in ResultCodes, failing \in 1..2 :
           \E out \in {_process_operations_group(
                           [mutations |-> mutations, run_status |-> run_status],
                           openldap_group_dictionary, group_operations, call.i,
                           r_add, r_del)} :
               /\ failing <= Len(IssuedBy(out))
               /\ \E issued \in {SubSeq(IssuedBy(out), 1, failing)} :
                      /\ AcceptedAll(openldap_groups, issued)
                      /\ openldap_groups' = MutatedAll(openldap_groups, issued)
                      /\ mutations' = mutations \o issued
                      /\ run_status' = (run_status /\ \A k \in 1..(failing - 1) :
                                                          issued[k].result = 0)
    /\ pc' = "exit"
    /\ UNCHANGED <<configVars, ad_accounts, openldap_uids, ad_objects, ad_groups,
                   openldap_users, markers, dictionaryVars, cacheVars, flattenVars,
                   call, ret>>

(* _main: write_monitoring_log after the loop of _process_operations. *)
MainWriteMonitoringLog ==
    /\ pc = "process_operations"
    /\ call.i > Len(KeysInOrder(group_operations))
    /\ \E writable \in BOOLEAN :
           \E out \in {write_monitoring_log(markers, run_status, "group_sync", writable)} :
               /\ markers' = out.files
               /\ pc' = IF out.exit THEN "exit" ELSE "done"
    /\ UNCHANGED <<configVars, ad_accounts, openldap_uids, ad_objects, ad_groups,
                   openldap_groups, openldap_users, dictionaryVars, cacheVars,
                   flattenVars, run_status, mutations, call, ret>>

(* The modify calls of the run for the members of a secondary group. *)
MemberMutationsOf(group) ==
    SelectSeq(mutations, LAMBDA m : m.op = "modify" /\ m.dn = OpenldapGroupDn(group))

(* The groups whose computed additions and deletions the run applied: the  *)
(* gate let them pass and every modify call was issued and succeeded.      *)
AppliedGroups ==
    {group \in DOMAIN group_operations :
        LET operations == group_operations[group]
            expected == (IF operations.additions # <<>> THEN 1 ELSE 0)
                            + (IF operations.deletions # <<>> THEN 1 ELSE 0)
        IN  /\ expected > 0
            /\ Len(MemberMutationsOf(group)) = expected
            /\ \A k \in 1..expected : MemberMutationsOf(group)[k].result = 0}

(* The process has ended; the next run starts with a new instance of the   *)
(* class against the directories and files as they are.                    *)
NextRun ==
    /\ pc \in {"done", "exit"}
    /\ ret.run < MaxRuns
    /\ ret' = [FirstRun EXCEPT !.run = ret.run + 1, !.created = ret.created,
                               !.applied = AppliedGroups]
    /\ run_status' = TRUE
    /\ mutations' = <<>>
    /\ ad_group_dictionary' = EmptyDict
    /\ openldap_group_dictionary' = EmptyDict
    /\ group_operations' = EmptyDict
    /\ user_lookup_cache' = EmptyDict
    /\ object_lookup_cache' = EmptyDict
    /\ call' = EmptyDict
    /\ pc' = "group_search_ad"
    /\ UNCHANGED <<configVars, directoryVars, all_users, flattenVars>>

NextGroupSync ==
    \/ MainAdGroupDictionary
    \/ MainOpenldapGroupDictionary
    \/ AddMissingOpenldapGroup
    \/ MainBuildSyncGroupList
    \/ MainGenerateGroupOperations
    \/ MainProcessOperationsGroup
    \/ MainProcessOperationsManifestError
    \/ MainWriteMonitoringLog
    \/ NextRun

SpecGroupSync == InitGroupSync /\ [][NextGroupSync]_vars

GroupSyncRunEnded == pc \in {"done", "exit"}

(* C11: a group whose computed additions and deletions the previous run    *)
(* applied successfully gets empty additions and empty deletions in the    *)
(* run that follows and no mutation is issued for it; the run computes     *)
(* the operations of that group whenever it reaches                        *)
(* _generate_group_operations.                                             *)
C11_SecondRunIdempotent ==
    \A group \in ret.applied :
        /\ MemberMutationsOf(group) = <<>>
        /\ \A m \in Range(mutations) : m.dn # OpenldapGroupDn(group)
        /\ group \in DOMAIN group_operations =>
               /\ group_operations[group].additions = <<>>
               /\ group_operations[group].deletions = <<>>
        /\ pc \in {"process_operations", "done"} => group \in DOMAIN group_operations

C11_Witness ==
    /\ ret.run = 2
    /\ pc = "done"
    /\ ret.applied = {"g1", "g3"}
    /\ group_operations["g1"].additions = <<>>
    /\ Range(ValuesOf(openldap_groups["g1"], "memberUid")) = {"a", "b"}

(* C12: every mutation of a member attribute goes to the secondary         *)
(* directory; a mutation of the primary directory is the replace of a      *)
(* group's gidNumber, issued by _new_ldap_group just before the add of     *)
(* that group; and no step changes the member list of a primary group.     *)
C12_MembersMutatedOnSecondaryOnly ==
    /\ [](\A k \in 1..Len(mutations) :
              LET m == mutations[k]
              IN  /\ m.attribute \in {"member", "memberUid"} =>
                         /\ m.connection = "openldap"
                         /\ m.attribute = "memberUid"
                  /\ m.connection = "ad" =>
                         /\ m.op = "modify"
                         /\ m.action = MODIFY_REPLACE
                         /\ m.attribute = GroupIdAttribute
                         /\ IF k < Len(mutations)
                            THEN /\ mutations[k + 1].op = "add"
                                 /\ mutations[k + 1].dn = OpenldapGroupDn(m.dn[2])
                            ELSE pc = "exit")
    /\ [][/\ DOMAIN ad_groups' = DOMAIN ad_groups
          /\ \A group \in DOMAIN ad_groups :
                 ValuesOf(ad_groups'[group], "member") = ValuesOf(ad_groups[group], "member")
         ]_vars

C12_Witness ==
    /\ pc = "done"
    /\ \E k \in 1..Len(mutations) : mutations[k].connection = "ad"
    /\ \E k \in 1..Len(mutations) :
           mutations[k].attribute = "memberUid" /\ mutations[k].result = 0

(* C13: a group that _new_ldap_group created in the secondary directory    *)
(* with a freshly allocated id has the same id in both directories at the  *)
(* end of that run and of every later run.                                 *)
C13_FreshIdInBothDirectories ==
    pc = "done" =>
        \A group \in ret.created :
            /\ group \in DOMAIN openldap_groups
            /\ GroupIdAttribute \in DOMAIN ad_groups[group]
            /\ ad_groups[group][GroupIdAttribute]
                   = openldap_groups[group][GroupIdAttribute]


(* C18: every directory search of a run whose result code is not success  *)
(* aborts the run: the process has ended, and no directory mutation was    *)
(* issued after the failed search. ret.failed_searches holds, for every    *)
(* failed search of the run, the number of mutations issued before it.     *)
C18_FailedSearchAbortsRun ==
    \A n \in ret.failed_searches : pc = "exit" /\ Len(mutations) = n

-----------------------------------------------------------------------------
(* User synchronisation (src/src/runners/user_sync.py).                    *)
(*                                                                         *)
(* An attribute value carries its Python type: [type, value] with type     *)
(* "str", "list", "int" or "bytes". An entry of all_users[user] is         *)
(* [attributes, dn, changes]; in the code "dn" and "changes" are keys of   *)
(* the same dict as the attributes, and neither is ever a list.            *)

PyStr(s) == [type |-> "str", value |-> s]
PyList(l) == [type |-> "list", value |-> l]
PyInt(n) == [type |-> "int", value |-> n]
PyBytes(s) == [type |-> "bytes", value |-> s]
PyNone == [type |-> "NoneType", value |-> None]

(* "".join(x) for a str or a list of str. *)
Join(x) ==
    IF x.type = "str"
    THEN x.value
    ELSE LET f[i \in 0..Len(x.value)] ==
                 IF i = 0 THEN "" ELSE f[i - 1] \o x.value[i]
         IN  f[Len(x.value)]

(* bool(x) *)
Truthy(x) ==
    CASE x.type = "str" -> x.value # ""
      [] x.type = "list" -> x.value # <<>>
      [] x.type = "int" -> x.value # 0
      [] x.type = "NoneType" -> FALSE
      [] OTHER -> TRUE

(* x == y in Python: values of different types are different. *)
PyEq(x, y) == x.type = y.type /\ x.value = y.value

(* unidecode() on the strings of the model. *)
unidecode(s) ==
    CASE s = "zoë@x" -> "zoe@x"
      [] s = "Zoë" -> "Zoe"
      [] OTHER -> s

(* Configuration of the schemas, as in the data of the unit tests. *)
primary_keys == [ad |-> "sAMAccountName", openldap |-> "uid"]

new_user_objectClass == <<"posixAccount", "sambaSamAccount">>

new_user_attributes ==
    [loginShell |-> PyStr("/bin/bash"), mail |-> PyStr("newuser@example.com"),
     sambaAcctFlags |-> PyStr("[U          ]")]

enable_user_mask == [loginShell |-> "/bin/bash", sambaAcctFlags |-> "[U          ]"]

disable_user_mask == [loginShell |-> "/sbin/nologin", sambaAcctFlags |-> "[DU         ]"]

MaskAttributes == <<"loginShell", "sambaAcctFlags">>

ms_ad_active_account_ids == {512, 66048}

(* config[server_type]["schema"].get(attr_type): the mapping and the order *)
(* of its keys.                                                            *)
SyncedAttrs(server_type, attr_type) == settings.schema[server_type][attr_type]

uid_min_member_number == 1000

sid_prefix == "S-1-5-21-"

(* The order in which the servers are searched and the users are met. *)
ServerOrder == <<"ad", "openldap">>

UserOrder == <<"a", "b", "c", "x">>

UsersInOrder(users) == SelectSeq(UserOrder, LAMBDA u : u \in DOMAIN users)

ServersInOrder(user_data) == SelectSeq(ServerOrder, LAMBDA t : t \in DOMAIN user_data)

AdUserOrder == <<"CN=A", "CN=B">>

UserDn(server_type, user) == <<primary_keys[server_type], user, "users", server_type>>

(* connection.response of a user search that succeeded. *)
UserSearchResponse(server_type, entries) ==
    LET keys == IF server_type = "ad"
                THEN SelectSeq(AdUserOrder, LAMBDA k : k \in DOMAIN entries)
                ELSE SelectSeq(UserOrder, LAMBDA k : k \in DOMAIN entries)
    IN  [i \in 1..Len(keys) |->
            [dn |-> IF server_type = "ad" THEN <<"CN", keys[i], "users", "ad">>
                    ELSE UserDn("openldap", keys[i]),
             attributes |-> entries[keys[i]]]]

(* The attributes of an entry with uid and sAMAccountName joined and       *)
(* lower-cased where they are set.                                         *)
LoweredAttributes(attributes) ==
    [a \in DOMAIN attributes |->
        IF a \in {"uid", "sAMAccountName"} /\ Truthy(attributes[a])
        THEN PyStr(LowerCase(Join(attributes[a])))
        ELSE attributes[a]]

(* all_users after _get_all_users: neither search looks at its result      *)
(* code; a search that failed has an empty response. results gives the     *)
(* result code of the search of each server.                               *)
_get_all_users(users, directories, results) ==
    LET servers[k \in 0..Len(ServerOrder)] ==
            IF k = 0
            THEN users
            ELSE LET server_type == ServerOrder[k]
                     response == IF results[server_type] = 0
                                 THEN UserSearchResponse(server_type,
                                                         directories[server_type])
                                 ELSE <<>>
                     entries[i \in 0..Len(response)] ==
                         IF i = 0
                         THEN servers[k - 1]
                         ELSE Only({LET entry == response[i]
                                        _user == LowerCase(Join(
                                                     entry.attributes[
                                                         primary_keys[server_type]]))
                                        data == [attributes |->
                                                     LoweredAttributes(entry.attributes),
                                                 dn |-> entry.dn,
                                                 changes |-> EmptyDict]
                                    IN  [u \in DOMAIN acc \cup {_user} |->
                                            IF u = _user
                                            THEN [t \in (IF u \in DOMAIN acc
                                                         THEN DOMAIN acc[u] ELSE {})
                                                            \cup {server_type} |->
                                                     IF t = server_type THEN data
                                                     ELSE acc[u][t]]
                                            ELSE acc[u]] :
                                       acc \in {entries[i - 1]}})
                 IN  entries[Len(response)]
    IN  servers[Len(ServerOrder)]

(* MultiValued without the exemption of objectClass. *)
MultiValued_any_attribute(users) ==
    \E u \in DOMAIN users : \E t \in DOMAIN users[u] :
        \E a \in DOMAIN users[u][t].attributes :
            /\ users[u][t].attributes[a].type = "list"
            /\ Len(users[u][t].attributes[a].value) >= 2

(* Whether _convert_lists_to_strings meets a list of two or more values in *)
(* an attribute other than objectClass.                                    *)
MultiValued(users) ==
    \E u \in DOMAIN users : \E t \in DOMAIN users[u] :
        \E a \in DOMAIN users[u][t].attributes :
            /\ users[u][t].attributes[a].type = "list"
            /\ Len(users[u][t].attributes[a].value) >= 2
            /\ a # "objectClass"

(* all_users after _convert_lists_to_strings returned: every list of less *)
(* than two values is the string of its join.                              *)
_convert_lists_to_strings(users) ==
    [u \in DOMAIN users |->
        [t \in DOMAIN users[u] |->
            [users[u][t] EXCEPT
                !.attributes =
                    [a \in DOMAIN @ |->
                        IF @[a].type = "list" /\ Len(@[a].value) < 2
                        THEN PyStr(Join(@[a]))
                        ELSE @[a]]]]]

(* user_exception_lookup: the loop over a copy of all_users. *)
user_exception_lookup(users) ==
    LET order == UsersInOrder(users)
        loop[i \in 0..Len(order)] ==
            IF i = 0
            THEN users
            ELSE Only({LET user == order[i]
                       IN  IF "ad" \in DOMAIN acc[user]
                           THEN IF acc[user].ad.attributes.sAMAccountName.value
                                    \in DOMAIN exceptions
                                THEN LET listed == user \in DOMAIN exceptions
                                         exception == IF listed THEN exceptions[user]
                                                      ELSE ""
                                     IN  IF exception # "" /\ exception # "NONE"
                                         THEN [u \in (DOMAIN acc \cup {exception})
                                                         \ {user} |->
                                                  IF u = exception
                                                  THEN [t \in (IF u \in DOMAIN acc
                                                               THEN DOMAIN acc[u]
                                                               ELSE {}) \cup {"ad"} |->
                                                           IF t = "ad" THEN acc[user].ad
                                                           ELSE acc[u][t]]
                                                  ELSE acc[u]]
                                         ELSE IF exception = "NONE"
                                         THEN [acc EXCEPT ![user].ad.attributes =
                                                  WithAttribute(@, "uid", PyStr("NONE"))]
                                         ELSE acc
                                ELSE acc
                           ELSE acc :
                          acc \in {loop[i - 1]}})
    IN  loop[Len(order)]


(* The form in which a search returns a value that was written: the       *)
(* multi-valued attribute types come back as lists.                        *)
MultiValuedTypes == {"uid", "mail", "objectClass", "cn"}

ResponseForm(attribute, v) ==
    IF attribute \in MultiValuedTypes /\ v.type # "list" THEN PyList(<<v.value>>) ELSE v

(* The directory entries after the user mutation m. *)
UserMutated(entries, m) ==
    LET key == m.dn[2]
    IN  IF m.result # 0
        THEN entries
        ELSE IF m.op = "add"
        THEN entries @@ (key :> [a \in DOMAIN m.changes |->
                                    ResponseForm(a, m.changes[a].value)])
        ELSE [entries EXCEPT
                 ![key] =
                     [a \in DOMAIN @ \cup {c \in DOMAIN m.changes :
                                              m.changes[c].action # None} |->
                         IF a \in DOMAIN m.changes /\ m.changes[a].action # None
                         THEN IF m.changes[a].action = MODIFY_ADD /\ a \in DOMAIN @
                              THEN PyList(@[a].value \o m.changes[a].value.value)
                              ELSE ResponseForm(a, m.changes[a].value)
                         ELSE @[a]]]

(* Whether the directory can answer the user mutation m with success: an   *)
(* added entry is new, a modified entry is there, an added class is new.   *)
UserAccepted(entries, m) ==
    LET key == m.dn[2]
    IN  IF m.op = "add"
        THEN key \notin DOMAIN entries
        ELSE /\ key \in DOMAIN entries
             /\ \A a \in DOMAIN m.changes :
                    (m.changes[a].action = MODIFY_ADD /\ a \in DOMAIN entries[key])
                        => /\ entries[key][a].type = "list"
                           /\ Range(entries[key][a].value)
                                  \cap Range(m.changes[a].value.value) = {}

(* A call of add or modify of LdapWrapper: the call on the connection,     *)
(* then write_manifest, which leaves the process when the file cannot be   *)
(* written. answer is [result, manifest].                                  *)
LdapWrapperCall(st, m, answer) ==
    LET sent == [m EXCEPT !.result = answer.result]
        st1 == [st EXCEPT
                   !.mutations = Append(@, sent),
                   !.accepted = @ /\ (answer.result = 0 =>
                                         UserAccepted(IF m.connection = "ad"
                                                      THEN st.ad_accounts
                                                      ELSE st.openldap_users, sent)),
                   !.exit = ~answer.manifest]
    IN  IF m.connection = "ad"
        THEN [st1 EXCEPT !.ad_accounts = UserMutated(@, sent)]
        ELSE [st1 EXCEPT !.openldap_users = UserMutated(@, sent)]

(* _get_next_sambasid: the search result is not looked at. A sambaSID is   *)
(* the pair of the prefix and the number that follows it.                  *)
_get_next_sambasid(entries, result) ==
    LET response == IF result = 0
                    THEN SelectSeq(UserSearchResponse("openldap", entries),
                                   LAMBDA e : "sambaSID" \in DOMAIN e.attributes)
                    ELSE <<>>
        uid_list == <<0>> \o [i \in 1..Len(response) |->
                                 response[i].attributes.sambaSID.value[2]]
        highest_uid_number == CHOOSE n \in Range(uid_list) :
                                  \A k \in Range(uid_list) : k <= n
    IN  PyStr(<<sid_prefix, highest_uid_number + 1>>)

(* get_next_gid_uid_number(basic_config, ldap_connections, "openldap",     *)
(* "user")                                                                 *)
get_next_uid_number(entries, result) ==
    LET response == IF result = 0
                    THEN SelectSeq(UserSearchResponse("openldap", entries),
                                   LAMBDA e : "uidNumber" \in DOMAIN e.attributes)
                    ELSE <<>>
        numbered == SelectSeq(response, LAMBDA e : e.attributes.uidNumber.type = "int")
        uid_number_list == <<0>> \o [i \in 1..Len(numbered) |->
                                        numbered[i].attributes.uidNumber.value]
    IN  fill_array_gaps(uid_number_list, uid_min_member_number).offset

(* _set_random_ldap_password with _generate_password. o.exhausted is the   *)
(* call of _generate_password, counted within the handler, whose thousand  *)
(* tries all fail: it writes the marker of "group_sync" and leaves.        *)
_set_random_ldap_password(st, o, server_type, user, password_types) ==
    LET st1 == [st EXCEPT !.generated = @ + 1]
    IN  IF st1.generated = o.exhausted
        THEN [st1 EXCEPT
                 !.markers = write_monitoring_log(@, FALSE, "group_sync", o.marker).files,
                 !.exit = TRUE]
        ELSE [st1 EXCEPT
                 !.all_users[user][server_type].changes =
                     LET f[i \in 0..Len(password_types)] ==
                             IF i = 0
                             THEN @
                             ELSE IF password_types[i] = "userPassword"
                             THEN WithAttribute(f[i - 1], "userPassword",
                                                PyBytes("{CRYPT}"))
                             ELSE IF password_types[i] = "sambaNTPassword"
                             THEN WithAttribute(f[i - 1], "sambaNTPassword",
                                                PyStr("NTHASH"))
                             ELSE f[i - 1]
                     IN  f[Len(password_types)]]

(* _add_class_to_ldap_account *)
_add_class_to_ldap_account(st, o, server_type, user, ldap_object_class) ==
    LET user_dn == UserDn(server_type, user)
        samba == ldap_object_class = "sambaSamAccount"
        st1 == IF samba
               THEN _set_random_ldap_password(st, o, "openldap", user,
                                              <<"sambaNTPassword">>)
               ELSE st
        class == [action |-> MODIFY_ADD, value |-> PyList(<<ldap_object_class>>)]
        operation == IF samba
                     THEN [sambaSID |-> [action |-> MODIFY_ADD,
                                         value |-> _get_next_sambasid(st.openldap_users,
                                                                      o.sid_search)],
                           objectClass |-> class]
                     ELSE [objectClass |-> class]
    IN  IF st1.exit
        THEN st1
        ELSE Only({IF st2.exit \/ o.mutation.result = 0
                   THEN st2
                   ELSE [st2 EXCEPT !.run_status = FALSE] :
                      st2 \in {LdapWrapperCall(
                                   st1,
                                   [connection |-> server_type, op |-> "modify",
                                    user |-> user, dn |-> user_dn,
                                    changes |-> operation, result |-> 0],
                                   o.mutation)}})

(* _new_ldap_account *)
_new_ldap_account(st, o, server_type, user) ==
    LET new_user_dn == UserDn(server_type, user)
        attributes ==
            [a \in DOMAIN new_user_attributes
                      \cup {"uid", "cn", "sambaSID", "homeDirectory", "uidNumber"} |->
                CASE a \in {"uid", "cn"} -> PyStr(user)
                  [] a = "sambaSID" -> _get_next_sambasid(st.openldap_users, o.sid_search)
                  [] a = "homeDirectory" -> PyStr(<<"/home/", user>>)
                  [] a = "uidNumber" -> PyInt(get_next_uid_number(st.openldap_users,
                                                                  o.uid_search))
                  [] OTHER -> new_user_attributes[a]]
        sent == [a \in DOMAIN attributes \cup {"objectClass"} |->
                    [action |-> None,
                     value |-> IF a = "objectClass" THEN PyList(new_user_objectClass)
                               ELSE attributes[a]]]
    IN  Only({IF st1.exit
              THEN st1
              ELSE IF o.mutation.result = 0
              THEN _set_random_ldap_password(
                       [st1 EXCEPT
                           !.all_users[user] =
                               [t \in DOMAIN @ \cup {server_type} |->
                                   IF t = server_type
                                   THEN [attributes |-> attributes, dn |-> new_user_dn,
                                         changes |-> EmptyDict]
                                   ELSE @[t]],
                           !.created = @ \cup {user}],
                       o, "openldap", user, <<"userPassword", "sambaNTPassword">>)
              ELSE [st1 EXCEPT !.run_status = FALSE] :
                 st1 \in {LdapWrapperCall(
                              st,
                              [connection |-> server_type, op |-> "add", user |-> user,
                               dn |-> new_user_dn, changes |-> sent, result |-> 0],
                              o.mutation)}})

(* _check_change: operation is operator.eq ("eq") or operator.ne ("ne"),   *)
(* always against the values of disable_user_mask.                         *)
_check_change(st, o, user, operation, mask) ==
    LET openldap == st.all_users[user].openldap
        differs == {attr \in Range(MaskAttributes) :
                       LET same == PyEq(openldap.attributes[attr],
                                        PyStr(disable_user_mask[attr]))
                       IN  IF operation = "eq" THEN same ELSE ~same}
        st1 == [st EXCEPT
                   !.all_users[user].openldap.changes =
                       [a \in DOMAIN @ \cup differs |->
                           IF a \in differs THEN PyStr(mask[a]) ELSE @[a]]]
    IN  IF differs # {}
        THEN _set_random_ldap_password(st1, o, "openldap", user,
                                       <<"userPassword", "sambaNTPassword">>)
        ELSE st

(* _check_user_enable_disable: the body of the loop for one user. *)
_check_user_enable_disable_user(st, o, user) ==
    LET data == st.all_users[user]
    IN  IF "ad" \in DOMAIN data /\ "openldap" \in DOMAIN data
        THEN LET classes == new_user_objectClass
                 loop[i \in 0..Len(classes)] ==
                     IF i = 0
                     THEN st
                     ELSE Only({IF acc.exit
                                   \/ classes[i] \in Range(acc.all_users[user].openldap
                                                               .attributes.objectClass.value)
                                THEN acc
                                ELSE _add_class_to_ldap_account(acc, o, "openldap", user,
                                                                classes[i]) :
                                   acc \in {loop[i - 1]}})
             IN  Only({IF st1.exit
                       THEN st1
                       ELSE IF data.ad.attributes.userAccountControl.value
                                   \in ms_ad_active_account_ids
                       THEN _check_change(st1, o, user, "eq", enable_user_mask)
                       ELSE _check_change(st1, o, user, "ne", disable_user_mask) :
                          st1 \in {loop[Len(classes)]}})
        ELSE IF "ad" \in DOMAIN data
        THEN IF ~("uid" \in DOMAIN data.ad.attributes
                  /\ PyEq(data.ad.attributes.uid, PyStr("NONE")))
             THEN _new_ldap_account(st, o, "openldap", user)
             ELSE st
        ELSE st


(* _attr_ascii_compare: the value to write, or None. *)
_attr_ascii_compare(users, user, source_server_type, attr, destination_server_type, synced_attrs) ==
    LET source == users[user][source_server_type].attributes[attr]
        destination == users[user][destination_server_type]
                           .attributes[synced_attrs.map[attr]]
    IN  IF PyEq(source, PyStr(""))
        THEN PyNone
        ELSE IF destination_server_type = "openldap" /\ source.type = "str"
        THEN IF ~PyEq(PyStr(unidecode(source.value)), destination)
             THEN PyStr(unidecode(source.value))
             ELSE PyNone
        ELSE IF ~PyEq(source, destination) THEN source ELSE PyNone

(* _build_attr_changes in which every attribute is compared with the     *)
(* values the directories held, whatever is pending on the source side.   *)
_build_attr_changes_from_snapshot(users, source_server_type, destination_server_type, attr_type) ==
    LET synced_attrs == SyncedAttrs(source_server_type, attr_type)
        attrs == synced_attrs.keys
        order == UsersInOrder(users)
        Skipped(user_data) ==
            \/ /\ "ad" \in DOMAIN user_data
               /\ "uid" \in DOMAIN user_data.ad.attributes
               /\ PyEq(user_data.ad.attributes.uid, PyStr("NONE"))
            \/ destination_server_type \notin DOMAIN user_data
            \/ source_server_type \notin DOMAIN user_data
        ForUser(acc, user) ==
            LET loop[i \in 0..Len(attrs)] ==
                    IF i = 0
                    THEN acc
                    ELSE Only({LET attr == attrs[i]
                                   source_changes == a[user][source_server_type].changes
                                   pending == FALSE
                                   return_value ==
                                       _attr_ascii_compare(a, user, source_server_type,
                                                           attr, destination_server_type,
                                                           synced_attrs)
                               IN  IF pending
                                   THEN [a EXCEPT
                                            ![user][destination_server_type].changes =
                                                WithAttribute(@, synced_attrs.map[attr],
                                                              source_changes[attr])]
                                   ELSE IF return_value.type # "NoneType"
                                           /\ (DOMAIN source_changes # {}
                                                   => Truthy(return_value))
                                   THEN [a EXCEPT
                                            ![user][destination_server_type].changes =
                                                WithAttribute(@, synced_attrs.map[attr],
                                                              return_value)]
                                   ELSE a :
                                  a \in {loop[i - 1]}})
            IN  loop[Len(attrs)]
        users_loop[k \in 0..Len(order)] ==
            IF k = 0
            THEN users
            ELSE Only({IF Skipped(acc[order[k]]) THEN acc ELSE ForUser(acc, order[k]) :
                          acc \in {users_loop[k - 1]}})
    IN  IF Len(attrs) = 0 THEN users ELSE users_loop[Len(order)]

(* _build_attr_changes: one pass over all_users. *)
_build_attr_changes(users, source_server_type, destination_server_type, attr_type) ==
    LET synced_attrs == SyncedAttrs(source_server_type, attr_type)
        attrs == synced_attrs.keys
        order == UsersInOrder(users)
        Skipped(user_data) ==
            \/ /\ "ad" \in DOMAIN user_data
               /\ "uid" \in DOMAIN user_data.ad.attributes
               /\ PyEq(user_data.ad.attributes.uid, PyStr("NONE"))
            \/ destination_server_type \notin DOMAIN user_data
            \/ source_server_type \notin DOMAIN user_data
        ForUser(acc, user) ==
            LET loop[i \in 0..Len(attrs)] ==
                    IF i = 0
                    THEN acc
                    ELSE Only({LET attr == attrs[i]
                                   source_changes == a[user][source_server_type].changes
                                   pending == DOMAIN source_changes # {}
                                                  /\ attr \in DOMAIN source_changes
                                   return_value ==
                                       _attr_ascii_compare(a, user, source_server_type,
                                                           attr, destination_server_type,
                                                           synced_attrs)
                               IN  IF pending
                                   THEN [a EXCEPT
                                            ![user][destination_server_type].changes =
                                                WithAttribute(@, synced_attrs.map[attr],
                                                              source_changes[attr])]
                                   ELSE IF return_value.type # "NoneType"
                                           /\ (DOMAIN source_changes # {}
                                                   => Truthy(return_value))
                                   THEN [a EXCEPT
                                            ![user][destination_server_type].changes =
                                                WithAttribute(@, synced_attrs.map[attr],
                                                              return_value)]
                                   ELSE a :
                                  a \in {loop[i - 1]}})
            IN  loop[Len(attrs)]
        users_loop[k \in 0..Len(order)] ==
            IF k = 0
            THEN users
            ELSE Only({IF Skipped(acc[order[k]]) THEN acc ELSE ForUser(acc, order[k]) :
                          acc \in {users_loop[k - 1]}})
    IN  IF Len(attrs) = 0 THEN users ELSE users_loop[Len(order)]

(* The passes with those of the secondary directory first. *)
AttrPasses_secondary_first ==
    <<[source |-> "openldap", destination |-> "openldap", attr_type |-> "local_copy_attrs"],
      [source |-> "openldap", destination |-> "ad", attr_type |-> "remote_synced_attrs"],
      [source |-> "ad", destination |-> "ad", attr_type |-> "local_copy_attrs"],
      [source |-> "ad", destination |-> "openldap", attr_type |-> "remote_synced_attrs"]>>

(* The four passes of _main, in its order. *)
AttrPasses ==
    <<[source |-> "ad", destination |-> "ad", attr_type |-> "local_copy_attrs"],
      [source |-> "ad", destination |-> "openldap", attr_type |-> "remote_synced_attrs"],
      [source |-> "openldap", destination |-> "openldap", attr_type |-> "local_copy_attrs"],
      [source |-> "openldap", destination |-> "ad", attr_type |-> "remote_synced_attrs"]>>

(* for server_type in user_data: the "ad" key is the first one unless it   *)
(* was put by user_exception_lookup into an entry the search of the        *)
(* secondary directory had made.                                           *)
ServersOf(st, user) ==
    LET user_data == st.all_users[user]
    IN  IF /\ DOMAIN user_data = {"ad", "openldap"}
           /\ user_data.ad.attributes.sAMAccountName.value # user
           /\ user \notin st.created
        THEN <<"openldap", "ad">>
        ELSE ServersInOrder(user_data)

(* _update_ldap_account: o gives the answer to the modify call of each     *)
(* server.                                                                 *)
_update_ldap_account(st, o, user) ==
    LET order == ServersOf(st, user)
        loop[i \in 0..Len(order)] ==
            IF i = 0
            THEN st
            ELSE Only({LET server_type == order[i]
                           changes == acc.all_users[user][server_type].changes
                           wrapped == [change \in DOMAIN changes |->
                                          IF Truthy(changes[change])
                                          THEN [action |-> MODIFY_REPLACE,
                                                value |-> changes[change]]
                                          ELSE [action |-> None,
                                                value |-> changes[change]]]
                       IN  IF acc.exit \/ DOMAIN changes = {}
                           THEN acc
                           ELSE Only({IF st2.exit \/ o[server_type].result = 0
                                      THEN st2
                                      ELSE [st2 EXCEPT !.run_status = FALSE] :
                                         st2 \in {LdapWrapperCall(
                                                      [acc EXCEPT
                                                          !.all_users[user][server_type]
                                                              .changes = wrapped],
                                                      [connection |-> server_type,
                                                       op |-> "modify", user |-> user,
                                                       dn |-> acc.all_users[user]
                                                                  [server_type].dn,
                                                       changes |-> wrapped, result |-> 0],
                                                      o[server_type])}}) :
                          acc \in {loop[i - 1]}})
    IN  loop[Len(order)]


-----------------------------------------------------------------------------
(* The calls of _generate_password one handler of the model makes at most. *)
MaxPasswords == 2

(* SpecUserSync: one run of AdLdapUserSync._main against the two           *)
(* directories. Every answer of a directory (result codes of searches and  *)
(* mutations), every write of the manifest and of the monitoring file and  *)
(* every call of _generate_password can fail.                              *)

AdUserEntry(name, userAccountControl, mail) ==
    [sAMAccountName |-> PyStr(name), userAccountControl |-> PyInt(userAccountControl),
     mail |-> PyList(mail), loginShell |-> PyStr("/bin/bash")]

OpenldapUserEntry(uid, classes, mask, mail, number) ==
    [uid |-> PyList(<<uid>>), objectClass |-> PyList(classes),
     loginShell |-> PyStr(mask.loginShell), sambaAcctFlags |-> PyStr(mask.sambaAcctFlags),
     mail |-> PyList(<<mail>>), sambaSID |-> PyStr(<<sid_prefix, number>>),
     uidNumber |-> PyInt(number)]

UserSyncAdAccounts ==
    {("CN=A" :> AdUserEntry("A", uac, mail)) @@ ("CN=B" :> AdUserEntry("b", 512, <<"b@x">>)) :
        uac \in {512, 514}, mail \in {<<"a@x">>, <<"a@x", "a@y">>}}

UserSyncOpenldapUsers ==
    LET x == "x" :> OpenldapUserEntry("x", <<"top", "posixAccount", "sambaSamAccount">>,
                                      enable_user_mask, "x@x", 1001)
    IN  {x,
         x @@ ("a" :> OpenldapUserEntry("a", <<"top", "posixAccount", "sambaSamAccount">>,
                                        enable_user_mask, "a@x", 1000)),
         x @@ ("a" :> OpenldapUserEntry("a", <<"top", "posixAccount", "sambaSamAccount">>,
                                        disable_user_mask, "old@x", 1000)),
         x @@ ("a" :> WithoutAttribute(
                          OpenldapUserEntry("a", <<"top", "posixAccount">>,
                                            enable_user_mask, "a@x", 1000),
                          "sambaSID"))}

UserSyncExceptions == {EmptyDict, "a" :> "NONE", "b" :> "x"}

UserRun == [runner |-> "user_sync", created |-> {}, failed_searches |-> {},
            fatal |-> None, none_users |-> {}]

InitUserSync ==
    /\ settings = DefaultSettings
    /\ args = DefaultArgs
    /\ exceptions \in UserSyncExceptions
    /\ country_control = EmptyDict
    /\ ad_accounts \in UserSyncAdAccounts
    /\ openldap_users \in UserSyncOpenldapUsers
    /\ openldap_uids = EmptyDict
    /\ ad_objects = EmptyDict
    /\ ad_groups = EmptyDict
    /\ openldap_groups = EmptyDict
    /\ markers \in {EmptyDict, [user_sync |-> TRUE, group_sync |-> TRUE]}
    /\ IdleDictionaries /\ IdleCaches /\ IdleFlatten
    /\ run_status = TRUE
    /\ mutations = <<>>
    /\ call = EmptyDict
    /\ ret = UserRun
    /\ pc = "get_all_users"

(* The state the handlers of the run work on. *)
UserSyncState ==
    [all_users |-> all_users, run_status |-> run_status, mutations |-> mutations,
     ad_accounts |-> ad_accounts, openldap_users |-> openldap_users,
     markers |-> markers, created |-> ret.created, exit |-> FALSE, accepted |-> TRUE,
     generated |-> 0]

(* The state after a handler: the process has ended when the handler left  *)
(* it, at the label next otherwise.                                        *)
UserSyncStep(out, fatal, failed_search, next) ==
    /\ out.accepted
    /\ all_users' = out.all_users
    /\ run_status' = out.run_status
    /\ mutations' = out.mutations
    /\ ad_accounts' = out.ad_accounts
    /\ openldap_users' = out.openldap_users
    /\ markers' = out.markers
    /\ ret' = [ret EXCEPT !.created = out.created,
                          !.fatal = IF out.exit THEN fatal ELSE @,
                          !.failed_searches = IF failed_search
                                              THEN @ \cup {Len(mutations)} ELSE @]
    /\ pc' = IF out.exit THEN "user_exit" ELSE next
    /\ UNCHANGED <<configVars, openldap_uids, ad_objects, ad_groups, openldap_groups,
                   dictionaryVars, user_lookup_cache, object_lookup_cache, flattenVars>>

UserSyncUnchanged ==
    UNCHANGED <<configVars, directoryVars, dictionaryVars, user_lookup_cache,
                object_lookup_cache, flattenVars, run_status, mutations>>

(* _main: _get_all_users. *)
MainGetAllUsers ==
    /\ pc = "get_all_users"
    /\ \E results \in [{"ad", "openldap"} -> ResultCodes] :
           /\ all_users' = _get_all_users(all_users,
                                          [ad |-> ad_accounts, openldap |-> openldap_users],
                                          results)
           /\ ret' = [ret EXCEPT !.failed_searches =
                         IF \E t \in DOMAIN results : results[t] # 0
                         THEN @ \cup {Len(mutations)} ELSE @]
    /\ pc' = "convert_lists_to_strings"
    /\ UNCHANGED call
    /\ UserSyncUnchanged

(* _main: _convert_lists_to_strings returns. *)
MainConvertListsToStrings ==
    /\ pc = "convert_lists_to_strings"
    /\ ~MultiValued(all_users)
    /\ all_users' = _convert_lists_to_strings(all_users)
    /\ pc' = "user_exception_lookup"
    /\ UNCHANGED <<call, ret>>
    /\ UserSyncUnchanged

(* _main: _convert_lists_to_strings meets a list of several values, writes *)
(* the marker of "group_sync" and leaves; the entries it converted before  *)
(* are lost with the process.                                              *)
MainConvertListsToStringsError ==
    /\ pc = "convert_lists_to_strings"
    /\ MultiValued(all_users)
    /\ \E writable \in BOOLEAN :
           /\ markers' = write_monitoring_log(markers, FALSE, "group_sync", writable).files
           /\ ret' = [ret EXCEPT !.fatal = IF writable THEN "multi_valued" ELSE "marker"]
    /\ pc' = "user_exit"
    /\ UNCHANGED <<configVars, ad_accounts, openldap_uids, ad_objects, ad_groups,
                   openldap_groups, openldap_users, dictionaryVars, cacheVars,
                   flattenVars, run_status, mutations, call>>

(* _main: user_exception_lookup. *)
MainUserExceptionLookup ==
    /\ pc = "user_exception_lookup"
    /\ \E out \in {user_exception_lookup(all_users)} :
           /\ all_users' = out
           /\ call' = [users |-> UsersInOrder(out), i |-> 1]
           /\ ret' = [ret EXCEPT !.none_users =
                         {u \in DOMAIN out :
                             /\ "ad" \in DOMAIN out[u]
                             /\ "uid" \in DOMAIN out[u].ad.attributes
                             /\ PyEq(out[u].ad.attributes.uid, PyStr("NONE"))}]
    /\ pc' = "check_user_enable_disable"
    /\ UserSyncUnchanged

(* What one iteration of _check_user_enable_disable is answered: the      *)
(* result codes of its searches, the answer to its add or modify call, the *)
(* call of _generate_password that uses up its tries (0: none does) and    *)
(* whether the monitoring file can then be written.                        *)
CheckOutcomes ==
    {o \in [sid_search : ResultCodes, uid_search : ResultCodes,
            mutation : MutationOutcomes, exhausted : 0..MaxPasswords,
            marker : BOOLEAN] :
        o.exhausted = 0 => o.marker}

(* The searches one iteration of _check_user_enable_disable makes and the  *)
(* directory answers with a failure.                                       *)
FailedUserSearches(o, user) ==
    LET data == all_users[user]
        creates == DOMAIN data = {"ad"} /\ user \notin ret.none_users
        adds_samba == /\ DOMAIN data = {"ad", "openldap"}
                      /\ "sambaSamAccount" \notin
                             Range(data.openldap.attributes.objectClass.value)
    IN  \/ (creates \/ adds_samba) /\ o.sid_search # 0
        \/ creates /\ o.uid_search # 0

(* One iteration of the loop of _check_user_enable_disable. *)
CheckUserEnableDisable ==
    /\ pc = "check_user_enable_disable"
    /\ call.i <= Len(call.users)
    /\ \E o \in CheckOutcomes :
           \E out \in {_check_user_enable_disable_user(UserSyncState, o,
                                                       call.users[call.i])} :
               /\ (o.exhausted # 0) => (out.exit /\ out.generated = o.exhausted)
               /\ UserSyncStep(out,
                               IF o.exhausted # 0
                               THEN IF o.marker THEN "password" ELSE "marker"
                               ELSE "manifest",
                               FailedUserSearches(o, call.users[call.i]), pc)
    /\ call' = [call EXCEPT !.i = @ + 1]

(* _main: the four calls of _build_attr_changes after the loop of          *)
(* _check_user_enable_disable has ended.                                   *)
MainBuildAttrChanges ==
    /\ pc = "check_user_enable_disable"
    /\ call.i > Len(call.users)
    /\ all_users' =
           LET f[k \in 0..Len(AttrPasses)] ==
                   IF k = 0
                   THEN all_users
                   ELSE Only({_build_attr_changes(acc, AttrPasses[k].source,
                                                  AttrPasses[k].destination,
                                                  AttrPasses[k].attr_type) :
                                 acc \in {f[k - 1]}})
           IN  f[Len(AttrPasses)]
    /\ call' = [users |-> UsersInOrder(all_users), i |-> 1]
    /\ pc' = "update_ldap_account"
    /\ UNCHANGED ret
    /\ UserSyncUnchanged

UpdateOutcomes == [ad : MutationOutcomes, openldap : MutationOutcomes]

(* One iteration of the loop of _main over _update_ldap_account. *)
MainUpdateLdapAccount ==
    /\ pc = "update_ldap_account"
    /\ call.i <= Len(call.users)
    /\ \E o \in UpdateOutcomes :
           \E out \in {_update_ldap_account(UserSyncState, o, call.users[call.i])} :
               UserSyncStep(out, "manifest", FALSE, pc)
    /\ call' = [call EXCEPT !.i = @ + 1]

(* _main: write_monitoring_log after the loop over _update_ldap_account. *)
MainWriteUserMonitoringLog ==
    /\ pc = "update_ldap_account"
    /\ call.i > Len(call.users)
    /\ \E writable \in BOOLEAN :
           \E out \in {write_monitoring_log(markers, run_status, "user_sync", writable)} :
               /\ markers' = out.files
               /\ pc' = IF out.exit THEN "user_exit" ELSE "user_done"
               /\ ret' = [ret EXCEPT !.fatal = IF out.exit THEN "marker" ELSE @]
    /\ UNCHANGED <<configVars, ad_accounts, openldap_uids, ad_objects, ad_groups,
                   openldap_groups, openldap_users, dictionaryVars, cacheVars,
                   flattenVars, run_status, mutations, call>>

NextUserSync ==
    \/ MainGetAllUsers
    \/ MainConvertListsToStrings
    \/ MainConvertListsToStringsError
    \/ MainUserExceptionLookup
    \/ CheckUserEnableDisable
    \/ MainBuildAttrChanges
    \/ MainUpdateLdapAccount
    \/ MainWriteUserMonitoringLog

SpecUserSync == InitUserSync /\ [][NextUserSync]_vars

(* C20: in user sync a user whose primary-side uid user_exception_lookup   *)
(* set to "NONE" is never synchronized: no secondary account is created    *)
(* for the user, no change is queued for the user in either directory and  *)
(* no mutation is issued for the user, also when the user has an entry in  *)
(* the secondary directory.                                                *)
C20_NoneUserNeverSynchronized ==
    \A user \in ret.none_users :
        /\ user \notin ret.created
        /\ \A server_type \in DOMAIN all_users[user] :
               all_users[user][server_type].changes = EmptyDict
        /\ \A i \in 1..Len(mutations) : mutations[i].user # user

(* C17: whenever a run ends through a fatal condition (password generation *)
(* out of tries, a list of several values where one value is required, a   *)
(* manifest line that cannot be written) the marker of the mode being run  *)
(* has been written as False before the process exits. The exits in which  *)
(* the monitoring file itself cannot be written are left out.              *)
C17_FatalExitWritesMarkerOfMode ==
    (pc = "user_exit" /\ ret.fatal \in {"password", "multi_valued", "manifest"})
        => (ret.runner \in DOMAIN markers /\ markers[ret.runner] = FALSE)

-----------------------------------------------------------------------------
(* SpecSync: the runs of either mode, as the entrypoint starts them.       *)

InitSync == InitGroupSync \/ InitUserSync

NextSync == NextGroupSync \/ NextUserSync

SpecSync == InitSync /\ [][NextSync]_vars

(* Whether the directories give a primary user no identity although the    *)
(* exception table does not exclude the user.                              *)
ResolutionFailed(ad_user) ==
    LET response == _user_search("ad", ad_user)
        name == LowerCase(response[1].attributes.sAMAccountName)
        target == IF name \in DOMAIN exceptions THEN exceptions[name] ELSE name
        found == IF target \in DOMAIN openldap_uids THEN openldap_uids[target] ELSE 0
    IN  \/ response = <<>>
        \/ found > 1
        \/ found = 0 /\ target # "NONE"
        \/ found = 0 /\ name \notin DOMAIN exceptions

FailedMutation == \E i \in 1..Len(mutations) : mutations[i].result # 0

(* The recoverable failures of a group-sync run so far. *)
GroupRecoverableFailure ==
    \/ FailedMutation
    \/ \E l \in ret.lookups : ResolutionFailed(l.ad_user)
    \/ \E g \in DOMAIN group_operations : Blocked(g)

(* C16: within one run of either mode run_status starts True and only ever *)
(* changes from True to False; the marker written at normal completion is  *)
(* True if and only if no recoverable failure (failed mutation, identity   *)
(* that cannot be resolved, blocked group) occurred in the run.            *)
C16_RunStatusMonotoneMarkerIffClean ==
    /\ [](pc \in {"group_search_ad", "get_all_users"} => run_status)
    /\ [][~(pc \in {"done", "exit"} /\ pc' = "group_search_ad")
              => (run_status' => run_status)]_vars
    /\ [](pc = "done" => (markers.group_sync <=> ~GroupRecoverableFailure))
    /\ [](pc = "user_done" => (markers.user_sync <=> ~FailedMutation))

(* A group-sync run completed with the marker False after a failed         *)
(* mutation that a successful one followed.                                *)
C16_Witness ==
    /\ pc = "done"
    /\ markers.group_sync = FALSE
    /\ \E i, j \in 1..Len(mutations) :
           i < j /\ mutations[i].result # 0 /\ mutations[j].result = 0

(* The actions of the modify calls a run issued for the members of a       *)
(* secondary group.                                                        *)
MemberActionsOf(group) ==
    [k \in 1..Len(MemberMutationsOf(group)) |-> MemberMutationsOf(group)[k].action]

(* Whether the run issued the mutation of kind op for the user on the      *)
(* connection, with the result told by failed.                             *)
IssuedForUser(connection, op, user, failed) ==
    \E i \in 1..Len(mutations) :
        /\ mutations[i].connection = connection
        /\ mutations[i].op = op
        /\ mutations[i].user = user
        /\ failed => mutations[i].result # 0

(* C19: a mutation that the directory answers with a failure sets          *)
(* run_status to False and never stops the run. As long as the process     *)
(* runs, run_status is False once a mutation failed. A run that reaches    *)
(* its last line has issued every mutation it owed, whatever the answers   *)
(* were: for every group that passes the gate the add-members call and     *)
(* then the delete-members call, for every primary group without a         *)
(* secondary group the add, for every user with queued changes the modify  *)
(* of each directory, for every primary user without secondary account     *)
(* the add.                                                                *)
C19_FailedMutationFailsRunOnly ==
    /\ (pc \notin {"exit", "user_exit"} /\ FailedMutation) => ~run_status
    /\ pc = "done" =>
           /\ \A g \in DOMAIN group_operations :
                  GatePredicate(g) => MemberActionsOf(g) = ExpectedActions(g)
           /\ \A g \in DOMAIN ad_group_dictionary :
                  \/ g \in DOMAIN openldap_group_dictionary
                  \/ \E i \in 1..Len(mutations) :
                         /\ mutations[i].op = "add"
                         /\ mutations[i].dn = OpenldapGroupDn(g)
                         /\ mutations[i].result # 0
    /\ pc = "user_done" =>
           \A user \in DOMAIN all_users :
               /\ \A server_type \in DOMAIN all_users[user] :
                      all_users[user][server_type].changes # EmptyDict
                          => \E i \in 1..Len(mutations) :
                                 /\ mutations[i].connection = server_type
                                 /\ mutations[i].op = "modify"
                                 /\ mutations[i].dn = all_users[user][server_type].dn
                                 /\ mutations[i].changes
                                        = all_users[user][server_type].changes
               /\ (DOMAIN all_users[user] = {"ad"} /\ user \notin ret.none_users)
                      => IssuedForUser("openldap", "add", user, TRUE)

(* A group-sync run completed with run_status False after the add-members *)
(* call of g1 failed: the delete-members call of g1 followed it, and the   *)
(* members of g3 were modified after it.                                   *)
C19_Witness ==
    /\ pc = "done"
    /\ ~run_status
    /\ Len(MemberMutationsOf("g1")) = 2
    /\ MemberMutationsOf("g1")[1].action = MODIFY_ADD
    /\ MemberMutationsOf("g1")[1].result # 0
    /\ MemberMutationsOf("g1")[2].action = MODIFY_DELETE
    /\ \E i, j \in 1..Len(mutations) :
           /\ i < j
           /\ mutations[i].dn = OpenldapGroupDn("g1") /\ mutations[i].result # 0
           /\ mutations[j].dn = OpenldapGroupDn("g3") /\ mutations[j].op = "modify"

-----------------------------------------------------------------------------
(* SpecWrapper: the calls a runner makes on an LdapWrapper connection      *)
(* (src/src/utils/ldap_wrapper.py), in any order. mutations holds every    *)
(* operation forwarded to the directory, searches included, each with the  *)
(* number of lines the manifest file had when it was forwarded;            *)
(* ret.manifest is the manifest file.                                      *)

MaxCalls == 3

WrapperDns == {UserDn("openldap", "a"), OpenldapGroupDn("g1")}

(* write_manifest: the line appended to the file, or the end of the        *)
(* process when the file cannot be opened.                                 *)
write_manifest(file, manifest_data, writable) ==
    IF writable
    THEN [file |-> Append(file, manifest_data), exit |-> FALSE]
    ELSE [file |-> file, exit |-> TRUE]

(* LdapWrapper.add and LdapWrapper.modify with a write_manifest that only  *)
(* logs the error when the file cannot be opened.                          *)
LdapWrapper_forward_no_exit(log, file, operation, dn, result, writable) ==
    LET forwarded == Append(log, [op |-> operation, dn |-> dn, result |-> result,
                                  lines |-> Len(file)])
        written == write_manifest(file, [op |-> operation, dn |-> dn, result |-> result],
                                  writable)
    IN  [log |-> forwarded, file |-> written.file, exit |-> FALSE]

(* LdapWrapper.add and LdapWrapper.modify: the call on the connection,     *)
(* then write_manifest with the operation and connection.result.           *)
LdapWrapper_forward(log, file, operation, dn, result, writable) ==
    LET forwarded == Append(log, [op |-> operation, dn |-> dn, result |-> result,
                                  lines |-> Len(file)])
        written == write_manifest(file, [op |-> operation, dn |-> dn, result |-> result],
                                  writable)
    IN  [log |-> forwarded, file |-> written.file, exit |-> written.exit]

InitWrapper ==
    /\ settings = DefaultSettings
    /\ args = DefaultArgs
    /\ IdleConfig /\ IdleDirectories /\ IdleDictionaries /\ IdleCaches /\ IdleFlatten
    /\ run_status = TRUE
    /\ mutations = <<>>
    /\ call = EmptyDict
    /\ ret = [manifest |-> <<>>]
    /\ pc = "connected"

(* LdapWrapper.add or LdapWrapper.modify *)
WrapperMutation ==
    /\ pc = "connected"
    /\ Len(mutations) < MaxCalls
    /\ \E operation \in {"add", "modify"}, dn \in WrapperDns, result \in ResultCodes,
          writable \in BOOLEAN :
           \E out \in {LdapWrapper_forward(mutations, ret.manifest, operation, dn,
                                           result, writable)} :
               /\ mutations' = out.log
               /\ ret' = [manifest |-> out.file]
               /\ pc' = IF out.exit THEN "exit" ELSE pc
    /\ UNCHANGED <<configVars, directoryVars, dictionaryVars, cacheVars, flattenVars,
                   run_status, call>>

(* LdapWrapper.search: forwarded, nothing written. *)
WrapperSearch ==
    /\ pc = "connected"
    /\ Len(mutations) < MaxCalls
    /\ \E dn \in WrapperDns, result \in ResultCodes :
           mutations' = Append(mutations, [op |-> "search", dn |-> dn, result |-> result,
                                           lines |-> Len(ret.manifest)])
    /\ UNCHANGED <<configVars, directoryVars, dictionaryVars, cacheVars, flattenVars,
                   run_status, call, ret, pc>>

NextWrapper == WrapperMutation \/ WrapperSearch

SpecWrapper == InitWrapper /\ [][NextWrapper]_vars

(* The adds and modifies among the first n forwarded operations. *)
ForwardedMutations(n) ==
    SelectSeq(SubSeq(mutations, 1, n), LAMBDA m : m.op \in {"add", "modify"})

(* C21: every add and every modify forwarded to the directory is followed, *)
(* before the next operation is forwarded, by exactly one manifest line    *)
(* that carries the operation and the result of the directory; when the    *)
(* line cannot be written the process ends and nothing is forwarded after  *)
(* it.                                                                     *)
C21_ManifestLineAfterEveryMutation ==
    /\ \A n \in 1..Len(mutations) :
           mutations[n].lines = Len(ForwardedMutations(n - 1))
    /\ \A k \in 1..Len(ret.manifest) :
           /\ k <= Len(ForwardedMutations(Len(mutations)))
           /\ ret.manifest[k].op = ForwardedMutations(Len(mutations))[k].op
           /\ ret.manifest[k].dn = ForwardedMutations(Len(mutations))[k].dn
           /\ ret.manifest[k].result = ForwardedMutations(Len(mutations))[k].result
    /\ pc = "connected" =>
           Len(ret.manifest) = Len(ForwardedMutations(Len(mutations)))
    /\ pc = "exit" =>
           /\ mutations[Len(mutations)].op \in {"add", "modify"}
           /\ Len(ret.manifest) = Len(ForwardedMutations(Len(mutations))) - 1

(* A failed modify and a search were forwarded after an add: two lines     *)
(* written, the second with the failure.                                   *)
C21_Witness ==
    /\ pc = "connected"
    /\ Len(mutations) = 3
    /\ mutations[1].op = "add"
    /\ mutations[2].op = "modify" /\ mutations[2].result # 0
    /\ mutations[3].op = "search" /\ mutations[3].lines = 2
    /\ Len(ret.manifest) = 2
    /\ ret.manifest[2].result # 0

-----------------------------------------------------------------------------
(* SpecAttrPasses: _main of AdLdapUserSync from the loop of                *)
(* _check_user_enable_disable on, with one step for each call of           *)
(* _build_attr_changes. The schema is the default one or one with          *)
(* local_copy_attrs, as in the unit tests: the primary directory copies    *)
(* displayName to its gecos and synchronises gecos, the secondary copies   *)
(* gecos to its description and synchronises loginShell and gidNumber.     *)
(* call.passes holds the parameters of the calls made and call.snapshots   *)
(* all_users before the first call and after each of them.                 *)

LocalCopySchema ==
    [ad |-> [local_copy_attrs |->
                 [keys |-> <<"displayName">>, map |-> [displayName |-> "gecos"]],
             remote_synced_attrs |->
                 [keys |-> <<"gecos">>, map |-> [gecos |-> "gecos"]]],
     openldap |-> [local_copy_attrs |->
                       [keys |-> <<"gecos">>, map |-> [gecos |-> "description"]],
                   remote_synced_attrs |->
                       [keys |-> <<"loginShell", "gidNumber">>,
                        map |-> [loginShell |-> "loginShell",
                                 gidNumber |-> "gidNumber"]]]]

AttrSchemas == {DefaultSchema, LocalCopySchema}

(* The primary entry of user a. *)
AttrAdAccounts ==
    {"CN=A" :> (AdUserEntry("A", uac, <<"a@x">>)
                    @@ [displayName |-> PyStr(displayName), gecos |-> PyStr(gecos),
                        gidNumber |-> PyInt(500)]) :
        uac \in {512, 514}, displayName \in {"Zoë", "Zoe", ""}, gecos \in {"Zoe", "old"}}

(* The secondary entries of user a and of user x, who is in the secondary *)
(* directory only.                                                         *)
AttrOpenldapUsers ==
    {("x" :> (OpenldapUserEntry("x", <<"top", "posixAccount", "sambaSamAccount">>,
                                enable_user_mask, "x@x", 1001)
                  @@ [gecos |-> PyStr("x"), description |-> PyStr("x"),
                      gidNumber |-> PyInt(500)]))
         @@ ("a" :> (OpenldapUserEntry("a", <<"top", "posixAccount", "sambaSamAccount">>,
                                       mask, "a@x", 1000)
                         @@ [gecos |-> PyStr(gecos), description |-> PyStr("Zoe"),
                             gidNumber |-> PyInt(gidNumber)])) :
        mask \in {enable_user_mask, disable_user_mask}, gecos \in {"Zoe", "old"},
        gidNumber \in {0, 500}}

InitAttrPasses ==
    /\ \E schema \in AttrSchemas : settings = [DefaultSettings EXCEPT !.schema = schema]
    /\ args = DefaultArgs
    /\ exceptions = EmptyDict
    /\ country_control = EmptyDict
    /\ ad_accounts \in AttrAdAccounts
    /\ openldap_users \in AttrOpenldapUsers
    /\ openldap_uids = EmptyDict
    /\ ad_objects = EmptyDict
    /\ ad_groups = EmptyDict
    /\ openldap_groups = EmptyDict
    /\ markers = EmptyDict
    /\ IdleDictionaries /\ IdleFlatten
    /\ user_lookup_cache = EmptyDict
    /\ object_lookup_cache = EmptyDict
    /\ all_users = user_exception_lookup(_convert_lists_to_strings(
                       _get_all_users(EmptyDict,
                                      [ad |-> ad_accounts, openldap |-> openldap_users],
                                      [ad |-> 0, openldap |-> 0])))
    /\ run_status = TRUE
    /\ mutations = <<>>
    /\ call = [users |-> UsersInOrder(all_users), i |-> 1, passes |-> <<>>,
               snapshots |-> <<>>]
    /\ ret = UserRun
    /\ pc = "check_user_enable_disable"

(* _main: the next call of _build_attr_changes. *)
MainBuildAttrChangesPass ==
    /\ \/ pc = "check_user_enable_disable" /\ call.i > Len(call.users)
       \/ pc = "build_attr_changes"
    /\ \E k \in {Len(call.passes) + 1} :
           \E out \in {_build_attr_changes(all_users, AttrPasses[k].source,
                                           AttrPasses[k].destination,
                                           AttrPasses[k].attr_type)} :
               /\ all_users' = out
               /\ call' = [users |-> UsersInOrder(out), i |-> 1,
                           passes |-> Append(call.passes, AttrPasses[k]),
                           snapshots |-> IF k = 1 THEN <<all_users, out>>
                                         ELSE Append(call.snapshots, out)]
               /\ pc' = IF k = Len(AttrPasses) THEN "update_ldap_account"
                        ELSE "build_attr_changes"
    /\ UNCHANGED ret
    /\ UserSyncUnchanged

NextAttrPasses ==
    \/ CheckUserEnableDisable
    \/ MainBuildAttrChangesPass
    \/ MainUpdateLdapAccount
    \/ MainWriteUserMonitoringLog

SpecAttrPasses == InitAttrPasses /\ [][NextAttrPasses]_vars

(* The calls of _build_attr_changes made so far: the parameters of the    *)
(* call with all_users before and after it.                                *)
PassesMade ==
    {[source |-> call.passes[k].source, destination |-> call.passes[k].destination,
      synced_attrs |-> settings.schema[call.passes[k].source][call.passes[k].attr_type],
      before |-> call.snapshots[k], after |-> call.snapshots[k + 1]] :
        k \in 1..Len(call.passes)}

(* The users of a pass that both of its directories hold. *)
UsersInBoth(p) ==
    {u \in DOMAIN p.before : {p.source, p.destination} \subseteq DOMAIN p.before[u]}

QueuedByPass(p, u, dest, v) ==
    /\ dest \in DOMAIN p.after[u][p.destination].changes
    /\ p.after[u][p.destination].changes[dest] = v

NothingQueuedByPass(p, u, dest) ==
    /\ (dest \in DOMAIN p.after[u][p.destination].changes)
           <=> (dest \in DOMAIN p.before[u][p.destination].changes)
    /\ dest \in DOMAIN p.before[u][p.destination].changes =>
           p.after[u][p.destination].changes[dest]
               = p.before[u][p.destination].changes[dest]

(* C24: in every pass, for a user in both directories and a mapping whose *)
(* source attribute has no pending change on the source side: an empty     *)
(* source value queues nothing; towards the secondary directory a string   *)
(* source queues its transliteration exactly when the transliteration      *)
(* differs from the value of the destination; in every other case the      *)
(* source value is queued exactly when it differs from the value of the    *)
(* destination.                                                            *)
C24_ComparisonDecidesWithoutPendingChange ==
    \A p \in PassesMade :
        \A u \in UsersInBoth(p) :
            \A k \in 1..Len(p.synced_attrs.keys) :
                LET attr == p.synced_attrs.keys[k]
                    dest == p.synced_attrs.map[attr]
                    source == p.before[u][p.source].attributes[attr]
                    destination == p.before[u][p.destination].attributes[dest]
                    ascii == PyStr(unidecode(source.value))
                IN  attr \notin DOMAIN p.before[u][p.source].changes =>
                        IF PyEq(source, PyStr(""))
                        THEN NothingQueuedByPass(p, u, dest)
                        ELSE IF p.destination = "openldap" /\ source.type = "str"
                        THEN IF ~PyEq(ascii, destination)
                             THEN QueuedByPass(p, u, dest, ascii)
                             ELSE NothingQueuedByPass(p, u, dest)
                        ELSE IF ~PyEq(source, destination)
                             THEN QueuedByPass(p, u, dest, source)
                             ELSE NothingQueuedByPass(p, u, dest)

(* A modify call that replaces attributes: the calls of                    *)
(* _add_class_to_ldap_account add values.                                  *)
ReplaceModify(mutation) ==
    /\ mutation.op = "modify"
    /\ \A c \in DOMAIN mutation.changes : mutation.changes[c].action # MODIFY_ADD

(* C25: the passes are made in the order primary to primary local copy,   *)
(* primary to secondary remote synced, secondary to secondary local copy,  *)
(* secondary to primary remote synced; a modify call that replaces         *)
(* attributes is issued only when the four passes are made, for a user and *)
(* a directory whose pending changes are not empty, and at most once for a *)
(* user and a directory.                                                   *)
C25_PassesInOrderThenOneModify ==
    /\ call.passes =
           SubSeq(<<[source |-> "ad", destination |-> "ad",
                     attr_type |-> "local_copy_attrs"],
                    [source |-> "ad", destination |-> "openldap",
                     attr_type |-> "remote_synced_attrs"],
                    [source |-> "openldap", destination |-> "openldap",
                     attr_type |-> "local_copy_attrs"],
                    [source |-> "openldap", destination |-> "ad",
                     attr_type |-> "remote_synced_attrs"]>>, 1, Len(call.passes))
    /\ \A i \in DOMAIN mutations :
           ReplaceModify(mutations[i]) =>
               /\ Len(call.passes) = 4
               /\ call.snapshots[5][mutations[i].user][mutations[i].connection].changes
                      # EmptyDict
               /\ DOMAIN mutations[i].changes
                      = DOMAIN call.snapshots[5][mutations[i].user]
                                   [mutations[i].connection].changes
               /\ \A j \in DOMAIN mutations :
                      (/\ ReplaceModify(mutations[j])
                       /\ mutations[j].user = mutations[i].user
                       /\ mutations[j].connection = mutations[i].connection) => j = i

(* The run ends after one modify call for user a in each directory:       *)
(* gecos, queued by the local copy of the primary directory, and           *)
(* loginShell, queued by the fourth pass; user x, with nothing pending,    *)
(* gets none.                                                              *)
C25_Witness ==
    /\ pc = "user_done"
    /\ Len(call.passes) = 4
    /\ call.snapshots[5]["x"].openldap.changes = EmptyDict
    /\ DOMAIN call.snapshots[5]["a"].ad.changes = {"gecos", "loginShell"}
    /\ \E i, j \in DOMAIN mutations :
           /\ ReplaceModify(mutations[i]) /\ ReplaceModify(mutations[j])
           /\ mutations[i].user = "a" /\ mutations[i].connection = "ad"
           /\ mutations[j].user = "a" /\ mutations[j].connection = "openldap"
    /\ \A i \in DOMAIN mutations : mutations[i].user # "x"

(* C28: after the four passes, what the second pass queued for a secondary *)
(* attribute from a string on the primary side, the pending change of the  *)
(* primary attribute or else the value of the primary directory, is the    *)
(* transliteration of that string.                                         *)
C28_SecondaryChangesAreTransliterated ==
    Len(call.passes) = 4 =>
        \A p \in {q \in PassesMade : q.source = "ad" /\ q.destination = "openldap"} :
            \A u \in UsersInBoth(p) :
                \A k \in 1..Len(p.synced_attrs.keys) :
                    LET attr == p.synced_attrs.keys[k]
                        dest == p.synced_attrs.map[attr]
                        source == IF attr \in DOMAIN p.before[u].ad.changes
                                  THEN p.before[u].ad.changes[attr]
                                  ELSE p.before[u].ad.attributes[attr]
                        queued == /\ dest \in DOMAIN p.after[u].openldap.changes
                                  /\ ~NothingQueuedByPass(p, u, dest)
                        final == call.snapshots[5][u].openldap.changes
                    IN  (source.type = "str" /\ queued) =>
                            /\ dest \in DOMAIN final
                            /\ final[dest] = PyStr(unidecode(source.value))

-----------------------------------------------------------------------------
(* The attributes of all_users that hold a list of two or more values. *)
ListsOfSeveral ==
    {<<u, t, a>> \in UNION {UNION {{<<u, t, a>> : a \in DOMAIN all_users[u][t].attributes} :
                                      t \in DOMAIN all_users[u]} : u \in DOMAIN all_users} :
        /\ all_users[u][t].attributes[a].type = "list"
        /\ Len(all_users[u][t].attributes[a].value) >= 2}

(* C26: the step of _convert_lists_to_strings ends the process exactly    *)
(* when an attribute other than objectClass holds a list of two or more    *)
(* values, no mutation being issued before or by it; when it returns,      *)
(* every objectClass list of two or more values is as it was.              *)
C26_SeveralValuesAbortUnlessObjectClass ==
    [][pc = "convert_lists_to_strings" =>
           /\ (pc' = "user_exit") <=> (\E l \in ListsOfSeveral : l[3] # "objectClass")
           /\ mutations = <<>> /\ mutations' = <<>>
           /\ pc' # "user_exit" =>
                  /\ pc' = "user_exception_lookup"
                  /\ \A l \in ListsOfSeveral :
                         all_users'[l[1]][l[2]].attributes[l[3]]
                             = all_users[l[1]][l[2]].attributes[l[3]]]_vars

(* The mail of a holds two values in the primary directory: the run has   *)
(* ended without a mutation, while the objectClass lists are still lists.  *)
C26_Witness ==
    /\ pc = "user_exit"
    /\ ret.fatal = "multi_valued"
    /\ mutations = <<>>
    /\ <<"a", "ad", "mail">> \in ListsOfSeveral
    /\ <<"x", "openldap", "objectClass">> \in ListsOfSeveral

-----------------------------------------------------------------------------
(* SpecGroupCreate: _main of AdLdapGroupSync up to _build_sync_group_list, *)
(* for a primary directory whose first group is named g1 or G1 and holds   *)
(* the id of the secondary group g1, and whose groups g2 and g3 the        *)
(* secondary directory lacks; g2 and g3 have an id or none.                *)

CreateAdGroups ==
    {(n1 :> [cn |-> n1, gidNumber |-> 500, member |-> <<"CN=A">>]) @@ g2 @@ g3 :
         n1 \in {"g1", "G1"},
         g2 \in {EmptyDict,
                 ("g2" :> [cn |-> "g2", member |-> <<"CN=A">>])},
         g3 \in {("g3" :> [cn |-> "g3", member |-> <<"CN=B">>]),
                 ("g3" :> [cn |-> "g3", gidNumber |-> 501, member |-> <<"CN=B">>])}}

InitGroupCreate ==
    /\ settings = DefaultSettings
    /\ args = DefaultArgs
    /\ ad_accounts = EmptyDict
    /\ exceptions = EmptyDict
    /\ openldap_uids = EmptyDict
    /\ country_control = EmptyDict
    /\ ad_objects = UserObjects
    /\ ad_groups \in CreateAdGroups
    /\ openldap_groups = ("g1" :> [cn |-> <<"g1">>, gidNumber |-> 500,
                                   memberUid |-> <<"a">>])
    /\ openldap_users = EmptyDict
    /\ markers = EmptyDict
    /\ IdleDictionaries /\ IdleCaches /\ IdleFlatten
    /\ run_status = TRUE
    /\ mutations = <<>>
    /\ call = EmptyDict
    /\ ret = FirstRun
    /\ pc = "group_search_ad"

NextGroupCreate ==
    \/ MainAdGroupDictionary
    \/ MainOpenldapGroupDictionary
    \/ AddMissingOpenldapGroup
    \/ MainBuildSyncGroupList

SpecGroupCreate == InitGroupCreate /\ [][NextGroupCreate]_vars

(* The add calls for the entry of a group in the secondary directory. *)
GroupAdds(group) ==
    {i \in DOMAIN mutations :
        /\ mutations[i].op = "add"
        /\ mutations[i].dn = OpenldapGroupDn(group)}

(* The groups the secondary directory held before the run. *)
FoundInSecondary ==
    {q \in DOMAIN openldap_groups :
        \A i \in GroupAdds(q) : mutations[i].result # 0}

(* C27: when the names of a primary group and of a group the secondary    *)
(* directory holds are equal once lower-cased, no add is issued for the    *)
(* primary group, and with equal ids the primary group is in the list of   *)
(* _build_sync_group_list.                                                 *)
C27_GroupNamesComparedInLowerCase ==
    \A p \in DOMAIN ad_groups :
        \A q \in FoundInSecondary :
            LowerCase(p) = LowerCase(q) =>
                /\ GroupAdds(p) = {}
                /\ (/\ pc = "generate_group_operations"
                    /\ ad_group_dictionary[p].id = openldap_group_dictionary[q].id)
                       => p \in Range(call.valid_sync_groups)

(* The calls that wrote an id for a group: the write-back of a fresh id   *)
(* to the primary directory and the add to the secondary directory.        *)
IdWrites ==
    {i \in DOMAIN mutations :
        /\ mutations[i].attribute = GroupIdAttribute
        /\ mutations[i].result = 0
        /\ \/ mutations[i].op = "add"
           \/ mutations[i].connection = "ad"}

(* The groups _new_ldap_group allocated a fresh id for. *)
FreshlyAllocated ==
    {mutations[i].dn[2] : i \in {j \in DOMAIN mutations :
                                    /\ mutations[j].connection = "ad"
                                    /\ mutations[j].attribute = GroupIdAttribute}}

(* C29: an id freshly allocated for a group and written to a directory    *)
(* differs from every id written in the same run for another group.        *)
C29_FreshIdsAreDistinct ==
    \A i, j \in IdWrites :
        (/\ mutations[i].dn[2] \in FreshlyAllocated
         /\ mutations[i].dn[2] # mutations[j].dn[2])
            => mutations[i].values # mutations[j].values

-----------------------------------------------------------------------------
(* The source members of g that resolve to the destination member d with   *)
(* an active account.                                                      *)
ActiveMatches(g, d) ==
    {m \in SourceMembers(g) :
        /\ ResolvedAccount(m).account_active
        /\ ResolvedAccount(m).sAMAccountName = d}

(* C30: in a group under country control a destination member that an     *)
(* active source member resolves to is not in the deletions, whatever the  *)
(* country code of that source member.                                     *)
C30_CountryControlNeverDeletes ==
    \A g \in DOMAIN group_operations :
        g \in DOMAIN country_control =>
            \A d \in DestinationMembers(g) :
                ActiveMatches(g, d) # {} => d \notin Range(group_operations[g].deletions)

(* g2 admits TW only; its destination member b is matched by CN=B, active *)
(* with country code GB, and is kept.                                      *)
C30_Witness ==
    /\ pc = "done"
    /\ "g2" \in DOMAIN country_control
    /\ country_control["g2"] = <<"TW">>
    /\ "b" \in DestinationMembers("g2")
    /\ ActiveMatches("g2", "b") = {"CN=B"}
    /\ ResolvedAccount("CN=B").country_code = "GB"
    /\ ~_check_country_control(ResolvedAccount("CN=B"), "g2")
    /\ group_operations["g2"].deletions = <<>>

====
